---- MODULE Spec2Model ----
(***************************************************************************)
(* State-machine model of the document Q&A pipeline: the two Streamlit     *)
(* chat applications (step8_streamlit_app.py, step11_streamlit_enhanced.py)*)
(* and the text extractors (step2, step10, step11).                        *)
(*                                                                         *)
(* A Streamlit script is re-executed from top to bottom for every widget   *)
(* event of a session; st.session_state survives between the runs.  Each   *)
(* action below is one such run, handling the one widget that fired.  The  *)
(* chat-input run is cut in two (ChatInput, Answer) at the blocking call   *)
(* of the answer generator, so that the "answering" position is a state.   *)
(***************************************************************************)
EXTENDS Integers, Sequences, FiniteSets, TLC

VARIABLES
    ui,                 \* which application runs: "step8" or "step11"
    messages,           \* st.session_state.messages
    qa_system_loaded,   \* st.session_state.qa_system_loaded
    chain,              \* st.session_state.chain
    retriever,          \* st.session_state.retriever
    uploaded_file_name, \* st.session_state.uploaded_file_name (step11)
    uploaded_file,      \* value of the st.file_uploader widget (step11)
    pc,                 \* position of the script run: "idle" or "answering"
    question,           \* the question of the chat-input run in progress
    event,              \* the widget whose event the last run handled
    shown,              \* status elements (info/warning/error/success) of the last run
    invocations,        \* calls of chain.invoke made by the last run
    raised,             \* str(e) of the exception get_answer caught in the last run, or ""
    loads_run,          \* executions of the body of a load function in the last run
    tmp_file,           \* the temp file of process_uploaded_pdf in the last run
    db_type,            \* db_type returned by load_existing_vectorstore in the last run
    api_key,            \* os.getenv("GROQ_API_KEY") is set
    disk,               \* the persisted index directories that exist
    cache_qa,           \* st.cache_resource entry of load_qa_system (step8)
    cache_emb,          \* st.cache_resource entry of load_embeddings (step11)
    emb_constructions,  \* HuggingFaceEmbeddings objects constructed by this process
    index_loads,        \* FAISS.load_local calls completed by this process
    pdf,                \* extraction: the document, a sequence of page texts
    extractor,          \* extraction: the extractor that ran last
    text_content,       \* extraction: what that extractor returned
    source_doc,         \* step10/step7: the PDF, pages with text, tables and images
    fs,                 \* step10/step7: files and folders on disk
    runs,               \* step10: how many times main() ran on source_doc
    outcome,            \* step10: how the last run of main() ended
    table_content,      \* step10: table_content of the last run
    image_content,      \* step10: image_content of the last run
    all_content,        \* step10: all_content of the last run
    first_run,          \* step10: outcome and all_content of the first run
    content_documents,  \* step10: create_documents_with_metadata(all_content)
    image_list,         \* step7: result of extract_images_from_pdf
    chunk_text,         \* splitter: the text given to split_text
    chunk_size,         \* splitter: chunk_size of the text splitter
    chunk_overlap,      \* splitter: chunk_overlap of the text splitter
    chunks,             \* splitter: what split_text returned
    chunked,            \* splitter: split_text has been called
    search_index,       \* retrieval: the documents of the vector index
    search_k,           \* retrieval: k of the retriever
    search_query,       \* retrieval: the question
    search_results,     \* retrieval: what the retriever returned
    searched,           \* retrieval: the retriever has been invoked
    script,             \* scripts: the script that runs
    present,            \* scripts: the required inputs that exist
    services,           \* scripts: which external services work during the run
    has_content,        \* scripts: the PDF holds tables and images to save
    spc,                \* scripts: position in the script, the step to run next
    halted,             \* scripts: "running", or how the run ended
    artifacts,          \* scripts: files and folders the run has created
    log,                \* scripts: the kinds of messages printed, in order
    missing,            \* scripts: the required input found missing, or "none"
    failed_call,        \* scripts: the external call that failed, or "none"
    asked,              \* scripts: questions asked in the loop of step5b
    export_text,        \* export: what export_chat_history() returned
    exported,           \* export: export_chat_history() has been called
    download            \* export: data of the st.download_button, if rendered

sessionVars == <<messages, qa_system_loaded, chain, retriever, uploaded_file_name>>
runVars     == <<pc, question, event, shown, invocations, raised, loads_run, tmp_file, db_type>>
envVars     == <<ui, api_key, disk>>
countVars   == <<emb_constructions, index_loads>>
uiVars      == <<sessionVars, runVars, envVars, uploaded_file, cache_qa, cache_emb, countVars>>
extractVars == <<pdf, extractor, text_content>>
contentVars == <<source_doc, fs, runs, outcome, table_content, image_content,
                 all_content, first_run, content_documents, image_list>>
chunkVars   == <<chunk_text, chunk_size, chunk_overlap, chunks, chunked>>
searchVars  == <<search_index, search_k, search_query, search_results, searched>>
scriptVars  == <<script, present, services, has_content, spc, halted, artifacts, log, missing,
                 failed_call, asked>>
exportVars  == <<export_text, exported, download>>
offlineVars == <<extractVars, contentVars, chunkVars, searchVars, scriptVars, exportVars>>
vars        == <<uiVars, offlineVars>>

----------------------------------------------------------------------------
(* Bounds of the model *)

MaxMessages == 4      \* longest history explored
MaxSample   == 1      \* how many of the sample-question buttons are pressed
MaxCount    == 2      \* the construction and load counters stop counting here
MaxPages    == 3      \* longest document given to the extractors
MaxTextLen  == 2      \* longest page text given to the extractors

----------------------------------------------------------------------------
(* Text: a string is a sequence of characters, so that strip() is computed *)

Whitespace == {" ", "\n"}
Chars      == {"a", " "}

RECURSIVE lstrip(_)
lstrip(s) == IF s = <<>> THEN s
             ELSE IF Head(s) \in Whitespace THEN lstrip(Tail(s)) ELSE s

RECURSIVE rstrip(_)
rstrip(s) == IF s = <<>> THEN s
             ELSE IF s[Len(s)] \in Whitespace THEN rstrip(SubSeq(s, 1, Len(s) - 1)) ELSE s

strip(s) == rstrip(lstrip(s))

Min(a, b) == IF a <= b THEN a ELSE b

----------------------------------------------------------------------------
(* Values *)

None      == [kind |-> "None"]        \* Python's None, for objects
Missing   == [kind |-> "missing"]     \* a st.session_state key never assigned
NoName    == "<None>"                 \* uploaded_file_name = None
NoFile    == [name |-> "<None>", readable |-> FALSE, pages |-> <<>>]  \* no upload
UnknownPage == 0                      \* the default 'Unknown' of metadata.get('page', ...)

Document(content, metadata) == [page_content |-> content, metadata |-> metadata]

\* what a user can put into the file uploader
UploadChoices ==
    { [name |-> "report.pdf", readable |-> TRUE,  pages |-> << <<"a">>, <<" ">>, <<"a", " ">> >>],
      [name |-> "blank.pdf",  readable |-> TRUE,  pages |-> << <<" ">> >>],
      [name |-> "broken.pdf", readable |-> FALSE, pages |-> <<>>] }

\* the persisted indexes: faiss_index_enhanced is written by step10 (documents
\* with page/type/source metadata), faiss_index by step4 (source only)
IndexOnDisk(dir) ==
    IF dir = "faiss_index_enhanced"
    THEN << Document(<<"a">>, [page |-> 1, type |-> "text", source |-> "document.pdf"]),
            Document(<<"a", " ", "a">>, [page |-> 2, type |-> "table", source |-> "document.pdf"]),
            Document(<<"a", "a">>, [page |-> 2, type |-> "text", source |-> "document.pdf"]),
            Document(<<"a", " ", "a", " ", "a">>,
                     [page |-> 3, type |-> "image_ocr", source |-> "document.pdf"]),
            Document(<<"a", "a", " ", "a">>, [page |-> 3, type |-> "text", source |-> "document.pdf"]),
            Document(<<"a", " ">>, [page |-> 4, type |-> "text", source |-> "document.pdf"]) >>
    ELSE << Document(<<"a", "a">>, [source |-> "qatar_test_doc.pdf"]),
            Document(<<"a">>, [source |-> "qatar_test_doc.pdf"]),
            Document(<<"a", " ", "a">>, [source |-> "qatar_test_doc.pdf"]),
            Document(<<"a", " ">>, [source |-> "qatar_test_doc.pdf"]) >>

TypedQuestions == {"What is the total?"}
Answers        == {"The total is 42."}
LLMFailures    == {"Request timed out.", "Rate limit exceeded"}

\* outcome of the external calls of one run: constructing the embedding model,
\* FAISS (load_local / from_documents), constructing ChatGroq
ExternalOutcomes == [emb : BOOLEAN, faiss : BOOLEAN, groq : BOOLEAN]

\* outcome of the calls of one answer: chain.invoke returns an answer or raises,
\* the second retriever.invoke returns or raises
GenerationOutcomes ==
    [llm : Answers \cup LLMFailures, retrieval : BOOLEAN]

\* the calls of a load are made one after the other and the first failure ends
\* the load: one outcome for each call that can be the first to fail
CallOutcomes ==
    { e \in ExternalOutcomes : (~e.emb => e.faiss /\ e.groq) /\ (~e.faiss => e.groq) }

\* retriever.invoke is not reached when chain.invoke raised
AnswerOutcomes ==
    { o \in GenerationOutcomes : o.llm \in LLMFailures => o.retrieval }

----------------------------------------------------------------------------
(* Text extraction *)

RECURSIVE TextItemsFrom_NoStrip(_, _)
\* a faulty variant of TextItemsFrom: "if text:" instead of "if text.strip():"
TextItemsFrom_NoStrip(pages, n) ==
    IF n > Len(pages) THEN <<>>
    ELSE IF pages[n] # <<>>
         THEN << [content |-> pages[n], page |-> n, type |-> "text"] >>
              \o TextItemsFrom_NoStrip(pages, n + 1)
         ELSE TextItemsFrom_NoStrip(pages, n + 1)

RECURSIVE TextItemsFrom(_, _)
\* the loop of extract_text_with_pages over pages n..Len(pages)
TextItemsFrom(pages, n) ==
    IF n > Len(pages) THEN <<>>
    ELSE IF strip(pages[n]) # <<>>
         THEN << [content |-> pages[n], page |-> n, type |-> "text"] >>
              \o TextItemsFrom(pages, n + 1)
         ELSE TextItemsFrom(pages, n + 1)

\* step10: one item per page whose text is not blank
extract_text_with_pages(pages) == TextItemsFrom(pages, 1)

RECURSIVE UploadedDocumentsFrom(_, _, _)
\* the page loop of process_uploaded_pdf over pages n..Len(pages)
UploadedDocumentsFrom(pages, name, n) ==
    IF n > Len(pages) THEN <<>>
    ELSE IF strip(pages[n]) # <<>>
         THEN << Document(pages[n], [page |-> n, type |-> "text", source |-> name]) >>
              \o UploadedDocumentsFrom(pages, name, n + 1)
         ELSE UploadedDocumentsFrom(pages, name, n + 1)

\* step2: one record per page, blank or not
extract_text_from_pdf(pages) ==
    [i \in 1..Len(pages) |-> [page |-> (i - 1) + 1, text |-> pages[i]]]

----------------------------------------------------------------------------
(* RecursiveCharacterTextSplitter(chunk_size, chunk_overlap), as the scripts  *)
(* construct it: default separators, keep_separator and strip_whitespace    *)

CHUNK_SIZE    == 1000
CHUNK_OVERLAP == 200

\* the default separators "\n\n", "\n", " ", ""
DefaultSeparators == << <<"\n", "\n">>, <<"\n">>, <<" ">>, <<>> >>

\* the separator occurs in the text at position i
IsAt(text, sep, i) ==
    /\ i + Len(sep) - 1 <= Len(text)
    /\ SubSeq(text, i, i + Len(sep) - 1) = sep

Found(text, sep) == \E i \in 1..Len(text) : IsAt(text, sep, i)

RECURSIVE PiecesFrom_DropSeparator(_, _, _, _)
\* a faulty variant of PiecesFrom: the separators are not kept in the pieces
PiecesFrom_DropSeparator(text, sep, start, i) ==
    IF i > Len(text) THEN << SubSeq(text, start, Len(text)) >>
    ELSE IF IsAt(text, sep, i)
         THEN << SubSeq(text, start, i - 1) >>
              \o PiecesFrom_DropSeparator(text, sep, i + Len(sep), i + Len(sep))
         ELSE PiecesFrom_DropSeparator(text, sep, start, i + 1)

RECURSIVE PiecesFrom(_, _, _, _)
\* re.split on the separator, every separator kept at the start of the piece
\* that follows it
PiecesFrom(text, sep, start, i) ==
    IF i > Len(text) THEN << SubSeq(text, start, Len(text)) >>
    ELSE IF IsAt(text, sep, i)
         THEN << SubSeq(text, start, i - 1) >> \o PiecesFrom(text, sep, i, i + Len(sep))
         ELSE PiecesFrom(text, sep, start, i + 1)

\* the pieces of the text at one separator, the empty ones dropped; the empty
\* separator cuts between every two characters
split_text_with_regex(text, sep) ==
    IF sep = <<>> THEN [i \in 1..Len(text) |-> << text[i] >>]
    ELSE SelectSeq(PiecesFrom(text, sep, 1, 1), LAMBDA piece : piece # <<>>)

RECURSIVE Flatten(_)
Flatten(pieces) == IF pieces = <<>> THEN <<>> ELSE Head(pieces) \o Flatten(Tail(pieces))

\* the chunk of the pieces collected so far: joined and stripped, none if blank
join_docs(current_doc) ==
    LET text == strip(Flatten(current_doc))
    IN  IF text = <<>> THEN <<>> ELSE << text >>

RECURSIVE PopAll(_, _, _, _, _)
\* a faulty variant of Pop: nothing of the finished chunk is carried over
PopAll(current_doc, total, len, size, overlap) ==
    IF total > 0
    THEN PopAll(Tail(current_doc), total - Len(Head(current_doc)), len, size, overlap)
    ELSE [current_doc |-> current_doc, total |-> total]

RECURSIVE Pop(_, _, _, _, _)
\* after a chunk is finished its first pieces are dropped until what is left
\* is no longer than chunk_overlap and leaves room for the next piece
Pop(current_doc, total, len, size, overlap) ==
    IF total > overlap \/ (total + len > size /\ total > 0)
    THEN Pop(Tail(current_doc), total - Len(Head(current_doc)), len, size, overlap)
    ELSE [current_doc |-> current_doc, total |-> total]

RECURSIVE MergeFrom(_, _, _, _, _, _, _)
\* the loop of merging the pieces i..Len(splits) into chunks
MergeFrom(splits, i, current_doc, total, docs, size, overlap) ==
    IF i > Len(splits) THEN docs \o join_docs(current_doc)
    ELSE LET d      == splits[i]
             len    == Len(d)
             full   == total + len > size /\ current_doc # <<>>
             kept   == IF full THEN Pop(current_doc, total, len, size, overlap)
                       ELSE [current_doc |-> current_doc, total |-> total]
         IN  MergeFrom(splits, i + 1, Append(kept.current_doc, d), kept.total + len,
                       IF full THEN docs \o join_docs(current_doc) ELSE docs,
                       size, overlap)

merge_splits(splits, size, overlap) == MergeFrom(splits, 1, <<>>, 0, <<>>, size, overlap)

RECURSIVE split_text_with(_, _, _, _)
RECURSIVE SplitLoop(_, _, _, _, _, _)

\* the loop over the pieces i..Len(splits): short pieces are collected and
\* merged, a piece of chunk_size or more is cut with the finer separators
SplitLoop(splits, i, good_splits, new_separators, size, overlap) ==
    LET merged == IF good_splits # <<>> THEN merge_splits(good_splits, size, overlap) ELSE <<>>
    IN  IF i > Len(splits) THEN merged
        ELSE IF Len(splits[i]) < size
             THEN SplitLoop(splits, i + 1, Append(good_splits, splits[i]),
                            new_separators, size, overlap)
             ELSE merged
                  \o (IF new_separators = <<>> THEN << splits[i] >>
                      ELSE split_text_with(splits[i], new_separators, size, overlap))
                  \o SplitLoop(splits, i + 1, <<>>, new_separators, size, overlap)

\* the first separator that occurs in the text is used, the ones after it are
\* left for the pieces that are still too long
split_text_with(text, separators, size, overlap) ==
    LET usable == { k \in 1..Len(separators) :
                       separators[k] = <<>> \/ Found(text, separators[k]) }
        k      == IF usable = {} THEN Len(separators)
                  ELSE CHOOSE m \in usable : \A n \in usable : m <= n
        separator      == separators[k]
        new_separators == IF usable = {} \/ separator = <<>> THEN <<>>
                          ELSE SubSeq(separators, k + 1, Len(separators))
    IN  SplitLoop(split_text_with_regex(text, separator), 1, <<>>, new_separators, size, overlap)

\* text_splitter.split_text(text)
split_text(text, size, overlap) == split_text_with(text, DefaultSeparators, size, overlap)

----------------------------------------------------------------------------
(* Index, retriever, chain *)

VectorStore(docs)   == [kind |-> "vectorstore", docs |-> docs]
Retriever(store, k) == [kind |-> "retriever", vectorstore |-> store, k |-> k]
Chain(r, model)     == [kind |-> "chain", retriever |-> r, model |-> model]

RECURSIVE SplitDocumentsFrom(_, _)
\* the chunks of the documents i..Len(documents), each with the metadata of
\* the document it was cut from
SplitDocumentsFrom(documents, i) ==
    IF i > Len(documents) THEN <<>>
    ELSE LET texts == split_text(documents[i].page_content, CHUNK_SIZE, CHUNK_OVERLAP)
         IN  [c \in 1..Len(texts) |-> Document(texts[c], documents[i].metadata)]
             \o SplitDocumentsFrom(documents, i + 1)

\* RecursiveCharacterTextSplitter(chunk_size=1000, chunk_overlap=200)
\*     .split_documents(documents)
split_documents(documents) == SplitDocumentsFrom(documents, 1)

\* the embedding model, an external function from text to vectors: here the
\* length of the text, and the distance of two vectors their difference
Embed(text) == Len(text)
Distance(q, text) ==
    IF Embed(q) >= Embed(text) THEN Embed(q) - Embed(text) ELSE Embed(text) - Embed(q)

NoNeighbour == 0      \* what the index returns where it has fewer than k vectors

RECURSIVE NearestFrom_IndexOrder(_, _, _, _)
\* a faulty variant of NearestFrom: the vectors in the order they were added
NearestFrom_IndexOrder(docs, q, taken, n) ==
    IF n = 0 THEN <<>>
    ELSE LET left == (1..Len(docs)) \ taken
         IN  IF left = {} THEN << NoNeighbour >> \o NearestFrom_IndexOrder(docs, q, taken, n - 1)
             ELSE LET best == CHOOSE i \in left : \A j \in left : i <= j
                  IN  << best >> \o NearestFrom_IndexOrder(docs, q, taken \cup {best}, n - 1)

RECURSIVE NearestFrom(_, _, _, _)
\* index.search(vector, k): the positions of the n nearest vectors not yet
\* taken, the nearest first, padded where the index has no more vectors
NearestFrom(docs, q, taken, n) ==
    IF n = 0 THEN <<>>
    ELSE LET left == (1..Len(docs)) \ taken
         IN  IF left = {} THEN << NoNeighbour >> \o NearestFrom(docs, q, taken, n - 1)
             ELSE LET best == CHOOSE i \in left : \A j \in left :
                                \/ Distance(q, docs[i].page_content) < Distance(q, docs[j].page_content)
                                \/ /\ Distance(q, docs[i].page_content) = Distance(q, docs[j].page_content)
                                   /\ i <= j
                  IN  << best >> \o NearestFrom(docs, q, taken \cup {best}, n - 1)

\* vectorstore.similarity_search(question, k): the documents of the neighbours
\* found, the padding skipped
similarity_search(docs, q, k) ==
    LET found == SelectSeq(NearestFrom(docs, q, {}, k), LAMBDA i : i # NoNeighbour)
    IN  [n \in 1..Len(found) |-> docs[found[n]]]

\* retriever.invoke(question): the k nearest chunks of the index
retriever_invoke(r, q) == similarity_search(r.vectorstore.docs, q, r.k)

\* a faulty variant of load_embeddings: no @st.cache_resource, the model is
\* constructed by every call
load_embeddings_uncached(ext, cached) ==
    [ok |-> ext.emb, cached |-> cached \/ ext.emb, constructed |-> ext.emb]

\* @st.cache_resource load_embeddings: constructed on a miss, cached if that succeeds
load_embeddings(ext, cached) ==
    [ok |-> cached \/ ext.emb, cached |-> cached \/ ext.emb,
     constructed |-> ~cached /\ ext.emb]

\* one more construction or load, counted up to MaxCount
Counted(count, happened) == IF happened THEN Min(count + 1, MaxCount) ELSE count

\* step11: the upload is written to a NamedTemporaryFile(delete=False), which
\* os.unlink removes as the last statement of the try block
process_uploaded_pdf(file, ext, cached) ==
    LET documents == IF file.readable
                     THEN UploadedDocumentsFrom(file.pages, file.name, 1) ELSE <<>>
        splits    == split_documents(documents)
        emb       == IF file.readable THEN load_embeddings(ext, cached)
                     ELSE [ok |-> FALSE, cached |-> cached, constructed |-> FALSE]
        built     == file.readable /\ emb.ok /\ ext.faiss /\ splits # <<>>
    IN  [vectorstore |-> IF built THEN VectorStore(splits) ELSE None,
         num_pages   |-> IF built THEN Len(documents) ELSE 0,
         errors      |-> IF built THEN {} ELSE {"error: Error processing PDF"},
         cached      |-> emb.cached,
         constructed |-> emb.constructed,
         tmp_file    |-> IF built THEN "deleted" ELSE "left"]

\* a faulty variant of load_existing_vectorstore: when faiss_index_enhanced
\* fails to load, faiss_index is loaded instead
load_existing_vectorstore_falling_back(ext, cached, dirs) ==
    LET emb == load_embeddings(ext, cached)
        dir == IF "faiss_index_enhanced" \in dirs /\ (ext.faiss \/ "faiss_index" \notin dirs)
               THEN "faiss_index_enhanced"
               ELSE IF "faiss_index" \in dirs THEN "faiss_index" ELSE "<none>"
        type == IF dir = "faiss_index_enhanced" THEN "enhanced" ELSE "basic"
        fell == "faiss_index_enhanced" \in dirs /\ dir = "faiss_index"
    IN  IF ~emb.ok \/ (dir # "<none>" /\ ~ext.faiss /\ ~fell)
        THEN [vectorstore |-> None, db_type |-> NoName, cached |-> emb.cached,
              errors |-> {"error: Error loading vector database"},
              constructed |-> emb.constructed, loaded |-> FALSE]
        ELSE IF dir # "<none>"
        THEN [vectorstore |-> VectorStore(IndexOnDisk(dir)), db_type |-> type,
              cached |-> emb.cached, errors |-> {},
              constructed |-> emb.constructed, loaded |-> TRUE]
        ELSE [vectorstore |-> None, db_type |-> NoName, cached |-> emb.cached,
              errors |-> {}, constructed |-> emb.constructed, loaded |-> FALSE]

\* step11: not cached; every call that gets as far as FAISS.load_local and
\* returns from it has deserialized the index once more
load_existing_vectorstore(ext, cached, dirs) ==
    LET emb == load_embeddings(ext, cached)
        dir == IF "faiss_index_enhanced" \in dirs THEN "faiss_index_enhanced"
               ELSE IF "faiss_index" \in dirs THEN "faiss_index" ELSE "<none>"
        type == IF dir = "faiss_index_enhanced" THEN "enhanced" ELSE "basic"
    IN  IF ~emb.ok \/ (dir # "<none>" /\ ~ext.faiss)
        THEN [vectorstore |-> None, db_type |-> NoName, cached |-> emb.cached,
              errors |-> {"error: Error loading vector database"},
              constructed |-> emb.constructed, loaded |-> FALSE]
        ELSE IF dir # "<none>"
        THEN [vectorstore |-> VectorStore(IndexOnDisk(dir)), db_type |-> type,
              cached |-> emb.cached, errors |-> {},
              constructed |-> emb.constructed, loaded |-> TRUE]
        ELSE [vectorstore |-> None, db_type |-> NoName, cached |-> emb.cached,
              errors |-> {}, constructed |-> emb.constructed, loaded |-> FALSE]

\* a faulty variant of create_qa_chain: the retriever asks for six chunks
create_qa_chain_six(vectorstore, ext, key) ==
    IF ~key
    THEN [chain |-> None, retriever |-> None,
          errors |-> {"error: No GROQ_API_KEY found in .env file!"}]
    ELSE IF ~ext.groq
    THEN [chain |-> None, retriever |-> None,
          errors |-> {"error: Error creating Q&A chain"}]
    ELSE [chain     |-> Chain(Retriever(vectorstore, 6), "llama-3.1-8b-instant"),
          retriever |-> Retriever(vectorstore, 6),
          errors    |-> {}]

\* step11
create_qa_chain(vectorstore, ext, key) ==
    IF ~key
    THEN [chain |-> None, retriever |-> None,
          errors |-> {"error: No GROQ_API_KEY found in .env file!"}]
    ELSE IF ~ext.groq
    THEN [chain |-> None, retriever |-> None,
          errors |-> {"error: Error creating Q&A chain"}]
    ELSE [chain     |-> Chain(Retriever(vectorstore, 5), "llama-3.1-8b-instant"),
          retriever |-> Retriever(vectorstore, 5),
          errors    |-> {}]

\* step8: the body of load_qa_system, run on a cache miss
load_qa_system(ext, key, dirs) ==
    IF ~ext.emb \/ "faiss_index" \notin dirs \/ ~ext.faiss
    THEN [chain |-> None, retriever |-> None,
          errors |-> {"error: Error loading Q&A system"}]
    ELSE IF ~key
    THEN [chain |-> None, retriever |-> None,
          errors |-> {"error: No GROQ_API_KEY found in .env file!"}]
    ELSE IF ~ext.groq
    THEN [chain |-> None, retriever |-> None,
          errors |-> {"error: Error loading Q&A system"}]
    ELSE [chain     |-> Chain(Retriever(VectorStore(IndexOnDisk("faiss_index")), 3),
                              "llama-3.1-70b-versatile"),
          retriever |-> Retriever(VectorStore(IndexOnDisk("faiss_index")), 3),
          errors    |-> {}]

RetrievalFailure == "Embedding failed"

\* str(e) of the exception the try block of get_answer caught, if any
Raised(out) ==
    IF out.llm \in LLMFailures THEN out.llm
    ELSE IF ~out.retrieval THEN RetrievalFailure ELSE ""

\* a faulty variant of get_answer: the answer already generated is returned
\* when the retrieval of the sources fails
get_answer_keeping_answer(q, c, r, out) ==
    IF out.llm \in LLMFailures
    THEN [answer |-> "Error: " \o Raised(out), source_docs |-> <<>>]
    ELSE IF ~out.retrieval
    THEN [answer |-> out.llm, source_docs |-> <<>>]
    ELSE [answer |-> out.llm, source_docs |-> retriever_invoke(r, q)]

\* step8
get_answer(q, c, r, out) ==
    IF Raised(out) # ""
    THEN [answer |-> "Error: " \o Raised(out), source_docs |-> <<>>]
    ELSE [answer |-> out.llm, source_docs |-> retriever_invoke(r, q)]

\* a faulty variant of get_answer_with_sources: the sources are fetched outside the try
get_answer_keeping_sources(q, c, r, out) ==
    IF Raised(out) # ""
    THEN [answer |-> "Error: " \o Raised(out), source_docs |-> retriever_invoke(r, q)]
    ELSE [answer |-> out.llm, source_docs |-> retriever_invoke(r, q)]

\* step11
get_answer_with_sources(q, c, r, out) ==
    IF Raised(out) # ""
    THEN [answer |-> "Error: " \o Raised(out), source_docs |-> <<>>]
    ELSE [answer |-> out.llm, source_docs |-> retriever_invoke(r, q)]

Get(metadata, key, default) ==
    IF key \in DOMAIN metadata THEN metadata[key] ELSE default

\* step11, "Save to history": the citation kept for each source document
Sources(source_docs) ==
    [i \in 1..Len(source_docs) |->
        [page    |-> Get(source_docs[i].metadata, "page", UnknownPage),
         type    |-> Get(source_docs[i].metadata, "type", "text"),
         content |-> source_docs[i].page_content]]

\* step8, "Add assistant message to history": the text of each source document
SourceTexts(source_docs) ==
    [i \in 1..Len(source_docs) |-> source_docs[i].page_content]

UserMessage(q) == [role |-> "user", content |-> q]
AssistantMessage(answer, sources) ==
    [role |-> "assistant", content |-> answer, sources |-> sources]

\* st.session_state.messages.append({"role": "user", "content": q})
AddUserMessage(history, q) == Append(history, UserMessage(q))

\* a faulty variant of SaveToHistory: the answer overwrites the last message
ReplaceLastMessage(history, answer, sources) ==
    Append(SubSeq(history, 1, Len(history) - 1), AssistantMessage(answer, sources))

\* st.session_state.messages.append({"role": "assistant", ...})
SaveToHistory(history, answer, sources) ==
    Append(history, AssistantMessage(answer, sources))

\* a faulty variant of StoredAfter: the assignment outside "if chain and retriever"
StoredAlways(ok, new, old) == new

\* st.session_state.chain = chain (and .retriever), assigned inside
\* "if chain and retriever" only
StoredAfter(ok, new, old) == IF ok THEN new ELSE old

\* a faulty variant of LoadedAfter: the flag follows the outcome of the last load
LoadedOnlyIfOk(ok, loaded) == ok

\* the load handlers set qa_system_loaded = True inside "if chain and retriever"
\* and have no else branch that resets it
LoadedAfter(ok, loaded) == IF ok THEN TRUE ELSE loaded

----------------------------------------------------------------------------
(* The chat applications *)

UIs == {"step8", "step11"}

\* step8
sample_questions ==
    << "What is this document about?", "What are the key findings?",
       "Are there any statistics mentioned?", "Summarize the main points",
       "What recommendations are provided?" >>

\* step11
samples ==
    << "What is this document about?", "What are the key findings?",
       "Are there any tables or statistics?", "What recommendations are provided?",
       "Summarize the main points" >>

SampleList(u) == IF u = "step8" THEN sample_questions ELSE samples

NotCached == [kind |-> "not cached"]

\* the status element of the main area: the hint shown while nothing is loaded
MainChatInterface(u, loaded) ==
    IF loaded THEN {}
    ELSE IF u = "step8"
         THEN {"info: Click Load Q&A System in the sidebar to start!"}
         ELSE {"info: Upload a PDF or load the existing document from the sidebar to start!"}

\* a faulty variant of ChatInputRendered: the chat input outside the else branch
ChatInputAlwaysRendered(loaded) == TRUE

\* st.chat_input is rendered only in the else branch of the main area
ChatInputRendered(loaded) == loaded

\* whether the handler of a sample-question button appends the question:
\* step11 tests qa_system_loaded, step8 does not
SampleAppends(u, loaded) == u = "step8" \/ loaded

\* a faulty variant of NoRunInProgress: widget events handled in the middle of a run
RunInterruptible == TRUE

\* the chat-input run is one synchronous sequence (append, get answer, append):
\* the script handles the next widget event only after the run has ended
NoRunInProgress == pc = "idle"

\* the state names of the UI state machine
State ==
    IF pc = "answering" THEN "answering"
    ELSE IF qa_system_loaded THEN "ready" ELSE "no-document-loaded"

\* The offline scripts of the pipeline have not run
NoExtraction ==
    /\ pdf = <<>>
    /\ extractor = "none"
    /\ text_content = <<>>

NoContent ==
    /\ source_doc = <<>>
    /\ fs = {}
    /\ runs = 0
    /\ outcome = "not run"
    /\ table_content = <<>>
    /\ image_content = <<>>
    /\ all_content = <<>>
    /\ first_run = [ran |-> FALSE, extracted |-> FALSE, all_content |-> <<>>]
    /\ content_documents = <<>>
    /\ image_list = [raised |-> FALSE, value |-> <<>>]

NoChunking ==
    /\ chunk_text = <<>>
    /\ chunk_size = CHUNK_SIZE
    /\ chunk_overlap = CHUNK_OVERLAP
    /\ chunks = <<>>
    /\ chunked = FALSE

NoSearch ==
    /\ search_index = <<>>
    /\ search_k = 3
    /\ search_query = <<>>
    /\ search_results = <<>>
    /\ searched = FALSE

NoScript ==
    /\ script = "none"
    /\ present = {}
    /\ services = [emb |-> TRUE, faiss |-> TRUE, groq |-> TRUE]
    /\ has_content = FALSE
    /\ spc = 1
    /\ halted = "not started"
    /\ artifacts = {}
    /\ log = <<>>
    /\ missing = "none"
    /\ failed_call = "none"
    /\ asked = 0

NoExport ==
    /\ export_text = None
    /\ exported = FALSE
    /\ download = None

Init ==
    /\ ui \in UIs
    /\ messages = <<>>
    /\ qa_system_loaded = FALSE
    /\ chain = Missing
    /\ retriever = Missing
    /\ uploaded_file_name = NoName
    /\ uploaded_file = NoFile
    /\ pc = "idle"
    /\ question = ""
    /\ event = "start"
    /\ shown = MainChatInterface(ui, FALSE)
    /\ invocations = 0
    /\ raised = ""
    /\ loads_run = 0
    /\ tmp_file = "none"
    /\ db_type = NoName
    /\ api_key \in BOOLEAN
    /\ disk \in SUBSET {"faiss_index", "faiss_index_enhanced"}
    /\ cache_qa = NotCached
    /\ cache_emb = FALSE
    /\ emb_constructions = 0
    /\ index_loads = 0
    /\ NoExtraction
    /\ NoContent
    /\ NoChunking
    /\ NoSearch
    /\ NoScript
    /\ NoExport

\* step8: the "Load Q&A System" button
LoadQASystem ==
    /\ ui = "step8" /\ NoRunInProgress
    /\ \E ext \in CallOutcomes :
       \E res \in {IF cache_qa = NotCached
                   THEN load_qa_system(ext, api_key, disk) ELSE cache_qa} :
         LET ok  == res.chain # None /\ res.retriever # None
         IN  /\ cache_qa' = res
             /\ emb_constructions' = Counted(emb_constructions, cache_qa = NotCached /\ ext.emb)
             /\ index_loads' = Counted(index_loads,
                                       /\ cache_qa = NotCached
                                       /\ ext.emb /\ "faiss_index" \in disk /\ ext.faiss)
             /\ chain' = StoredAfter(ok, res.chain, chain)
             /\ retriever' = StoredAfter(ok, res.retriever, retriever)
             /\ qa_system_loaded' = LoadedAfter(ok, qa_system_loaded)
             /\ shown' = res.errors
                         \cup (IF ok THEN {"success: System loaded!"}
                                     ELSE {"error: Failed to load system"})
                         \cup MainChatInterface(ui, qa_system_loaded')
    /\ event' = "load_qa_system"
    /\ loads_run' = (IF cache_qa = NotCached THEN 1 ELSE 0)
    /\ tmp_file' = "none"
    /\ db_type' = NoName
    /\ invocations' = 0
    /\ raised' = ""
    /\ UNCHANGED <<messages, uploaded_file_name, uploaded_file, pc, question,
                   envVars, cache_emb, offlineVars>>

\* step11: the file uploader receives a file, or its file is removed
UploadFile ==
    /\ ui = "step11" /\ NoRunInProgress
    /\ \E f \in UploadChoices \cup {NoFile} :
         /\ f # uploaded_file
         /\ uploaded_file' = f
    /\ event' = "file_uploader"
    /\ loads_run' = 0
    /\ tmp_file' = "none"
    /\ db_type' = NoName
    /\ shown' = MainChatInterface(ui, qa_system_loaded)
    /\ invocations' = 0
    /\ raised' = ""
    /\ UNCHANGED <<sessionVars, pc, question, envVars, cache_qa, cache_emb, countVars, offlineVars>>

\* step11: the "Process Uploaded PDF" button, rendered while a file is uploaded
ProcessUploadedPDF ==
    /\ ui = "step11" /\ NoRunInProgress
    /\ uploaded_file # NoFile
    /\ \E ext \in CallOutcomes :
       \E res \in {process_uploaded_pdf(uploaded_file, ext, cache_emb)} :
         LET qa  == IF res.vectorstore # None
                    THEN create_qa_chain(res.vectorstore, ext, api_key)
                    ELSE [chain |-> None, retriever |-> None, errors |-> {}]
             ok  == qa.chain # None /\ qa.retriever # None
         IN  /\ cache_emb' = res.cached
             /\ emb_constructions' = Counted(emb_constructions, res.constructed)
             /\ index_loads' = index_loads
             /\ tmp_file' = res.tmp_file
             /\ chain' = StoredAfter(ok, qa.chain, chain)
             /\ retriever' = StoredAfter(ok, qa.retriever, retriever)
             /\ qa_system_loaded' = LoadedAfter(ok, qa_system_loaded)
             /\ uploaded_file_name' = IF ok THEN uploaded_file.name ELSE uploaded_file_name
             /\ messages' = IF ok THEN <<>> ELSE messages
             /\ shown' = res.errors \cup qa.errors
                         \cup (IF ok THEN {"success: Processed pages!"} ELSE {})
                         \cup MainChatInterface(ui, qa_system_loaded')
    /\ event' = "process_uploaded_pdf"
    /\ loads_run' = 1
    /\ db_type' = NoName
    /\ invocations' = 0
    /\ raised' = ""
    /\ UNCHANGED <<uploaded_file, pc, question, envVars, cache_qa, offlineVars>>

\* step11: the "Load Existing Document" button
LoadExistingDocument ==
    /\ ui = "step11" /\ NoRunInProgress
    /\ \E ext \in CallOutcomes :
       \E res \in {load_existing_vectorstore(ext, cache_emb, disk)} :
         LET qa  == IF res.vectorstore # None
                    THEN create_qa_chain(res.vectorstore, ext, api_key)
                    ELSE [chain |-> None, retriever |-> None,
                          errors |-> {"error: No existing database found"}]
             ok  == qa.chain # None /\ qa.retriever # None
         IN  /\ cache_emb' = res.cached
             /\ emb_constructions' = Counted(emb_constructions, res.constructed)
             /\ index_loads' = Counted(index_loads, res.loaded)
             /\ db_type' = res.db_type
             /\ chain' = StoredAfter(ok, qa.chain, chain)
             /\ retriever' = StoredAfter(ok, qa.retriever, retriever)
             /\ qa_system_loaded' = LoadedAfter(ok, qa_system_loaded)
             /\ uploaded_file_name' = IF ok THEN "Existing (" \o res.db_type \o ")"
                                      ELSE uploaded_file_name
             /\ shown' = res.errors \cup qa.errors
                         \cup (IF ok THEN {"success: Loaded database!"} ELSE {})
                         \cup MainChatInterface(ui, qa_system_loaded')
    /\ event' = "load_existing_document"
    /\ loads_run' = 1
    /\ tmp_file' = "none"
    /\ invocations' = 0
    /\ raised' = ""
    /\ UNCHANGED <<messages, uploaded_file, pc, question, envVars, cache_qa, offlineVars>>

\* a faulty variant of ClearChat: the button also drops the loaded document
ClearChat_ResetsSession ==
    /\ NoRunInProgress
    /\ messages' = <<>>
    /\ qa_system_loaded' = FALSE
    /\ event' = "clear_chat"
    /\ loads_run' = 0
    /\ tmp_file' = "none"
    /\ db_type' = NoName
    /\ shown' = MainChatInterface(ui, FALSE)
    /\ invocations' = 0
    /\ raised' = ""
    /\ UNCHANGED <<chain, retriever, uploaded_file_name,
                   uploaded_file, pc, question, envVars, cache_qa, cache_emb, countVars, offlineVars>>

\* both: the "Clear Chat" button, then st.rerun()
ClearChat ==
    /\ NoRunInProgress
    /\ messages' = <<>>
    /\ event' = "clear_chat"
    /\ loads_run' = 0
    /\ tmp_file' = "none"
    /\ db_type' = NoName
    /\ shown' = MainChatInterface(ui, qa_system_loaded)
    /\ invocations' = 0
    /\ raised' = ""
    /\ UNCHANGED <<qa_system_loaded, chain, retriever, uploaded_file_name,
                   uploaded_file, pc, question, envVars, cache_qa, cache_emb, countVars, offlineVars>>

\* both: one of the sample-question buttons
SampleQuestion ==
    /\ NoRunInProgress
    /\ Len(messages) < MaxMessages
    /\ \E i \in 1..MaxSample :
         /\ i <= Len(SampleList(ui))
         /\ IF SampleAppends(ui, qa_system_loaded)
            THEN \* append, st.rerun(): the next run renders the main area
                 /\ messages' = AddUserMessage(messages, SampleList(ui)[i])
                 /\ shown' = MainChatInterface(ui, qa_system_loaded)
            ELSE /\ messages' = messages
                 /\ shown' = {"warning: Please load a document first!"}
                             \cup MainChatInterface(ui, qa_system_loaded)
    /\ event' = "sample_question"
    /\ loads_run' = 0
    /\ tmp_file' = "none"
    /\ db_type' = NoName
    /\ invocations' = 0
    /\ raised' = ""
    /\ UNCHANGED <<qa_system_loaded, chain, retriever, uploaded_file_name,
                   uploaded_file, pc, question, envVars, cache_qa, cache_emb, countVars, offlineVars>>

\* both: a question is typed into st.chat_input; the run appends the user
\* message and calls the answer generator
ChatInput ==
    /\ NoRunInProgress
    /\ ChatInputRendered(qa_system_loaded)
    /\ Len(messages) + 2 <= MaxMessages
    /\ \E q \in TypedQuestions :
         /\ messages' = AddUserMessage(messages, q)
         /\ question' = q
    /\ pc' = "answering"
    /\ event' = "chat_input"
    /\ loads_run' = 0
    /\ tmp_file' = "none"
    /\ db_type' = NoName
    /\ shown' = {}
    /\ invocations' = 0
    /\ raised' = ""
    /\ UNCHANGED <<qa_system_loaded, chain, retriever, uploaded_file_name,
                   uploaded_file, envVars, cache_qa, cache_emb, countVars, offlineVars>>

\* both: the answer generator returns; the run appends the assistant message
Answer ==
    /\ pc = "answering"
    /\ IF chain = Missing \/ retriever = Missing
       THEN \* reading st.session_state.chain raises outside any try: the run ends
            /\ messages' = messages
            /\ invocations' = 0
            /\ raised' = ""
            /\ shown' = {"exception: st.session_state has no attribute"}
       ELSE \E out \in AnswerOutcomes :
            \E res \in {IF ui = "step8"
                        THEN get_answer(question, chain, retriever, out)
                        ELSE get_answer_with_sources(question, chain, retriever, out)} :
              LET src == IF ui = "step8" THEN SourceTexts(res.source_docs)
                         ELSE Sources(res.source_docs)
              IN  /\ messages' = SaveToHistory(messages, res.answer, src)
                  /\ invocations' = 1
                  /\ raised' = Raised(out)
                  /\ shown' = {"answer: " \o res.answer}
    /\ pc' = "idle"
    /\ question' = ""
    /\ loads_run' = 0
    /\ tmp_file' = "none"
    /\ db_type' = NoName
    /\ UNCHANGED <<qa_system_loaded, chain, retriever, uploaded_file_name,
                   uploaded_file, event, envVars, cache_qa, cache_emb, countVars, offlineVars>>

Next ==
    \/ LoadQASystem
    \/ UploadFile
    \/ ProcessUploadedPDF
    \/ LoadExistingDocument
    \/ ClearChat
    \/ SampleQuestion
    \/ ChatInput
    \/ Answer

Spec == Init /\ [][Next]_vars

----------------------------------------------------------------------------
(* The text extractors, applied to every document within the bounds *)

RECURSIVE SeqsUpTo(_, _)
\* the sequences over S of length at most n
SeqsUpTo(S, n) ==
    IF n = 0 THEN {<<>>}
    ELSE LET shorter == SeqsUpTo(S, n - 1)
         IN  shorter \cup {Append(t, x) : t \in shorter, x \in S}

PageTexts == SeqsUpTo(Chars, MaxTextLen)
Pdfs      == SeqsUpTo(PageTexts, MaxPages)

\* No Streamlit session is open while an offline script runs
NoSession ==
    /\ ui = "step11"
    /\ messages = <<>>
    /\ qa_system_loaded = FALSE
    /\ chain = Missing
    /\ retriever = Missing
    /\ uploaded_file_name = NoName
    /\ uploaded_file = NoFile
    /\ pc = "idle"
    /\ question = ""
    /\ event = "start"
    /\ shown = MainChatInterface(ui, FALSE)
    /\ invocations = 0
    /\ raised = ""
    /\ loads_run = 0
    /\ tmp_file = "none"
    /\ db_type = NoName
    /\ api_key = TRUE
    /\ disk = {}
    /\ cache_qa = NotCached
    /\ cache_emb = FALSE
    /\ emb_constructions = 0
    /\ index_loads = 0

InitExtract ==
    /\ NoSession
    /\ pdf \in Pdfs
    /\ extractor = "none"
    /\ text_content = <<>>
    /\ NoContent
    /\ NoChunking
    /\ NoSearch
    /\ NoScript
    /\ NoExport

\* step10: text_content = extract_text_with_pages(PDF_PATH)
ExtractStep10 ==
    /\ extractor' = "step10"
    /\ text_content' = extract_text_with_pages(pdf)
    /\ UNCHANGED <<pdf, uiVars, contentVars, chunkVars, searchVars, scriptVars, exportVars>>

\* step11: the documents process_uploaded_pdf builds from the uploaded file
ExtractStep11 ==
    /\ extractor' = "step11"
    /\ text_content' = UploadedDocumentsFrom(pdf, "upload.pdf", 1)
    /\ UNCHANGED <<pdf, uiVars, contentVars, chunkVars, searchVars, scriptVars, exportVars>>

\* step2: content = extract_text_from_pdf("qatar_test_doc.pdf")
ExtractStep2 ==
    /\ extractor' = "step2"
    /\ text_content' = extract_text_from_pdf(pdf)
    /\ UNCHANGED <<pdf, uiVars, contentVars, chunkVars, searchVars, scriptVars, exportVars>>

NextExtract ==
    \/ ExtractStep10
    \/ ExtractStep11
    \/ ExtractStep2

SpecExtract == InitExtract /\ [][NextExtract]_vars

----------------------------------------------------------------------------
(* Properties of the chat applications, checked under Spec *)

AskEvents  == {"sample_question", "chat_input"}
LoadEvents == {"load_qa_system", "process_uploaded_pdf", "load_existing_document"}

LoadFirstMessages ==
    { "info: Click Load Q&A System in the sidebar to start!",
      "info: Upload a PDF or load the existing document from the sidebar to start!",
      "warning: Please load a document first!" }

SuccessMessages ==
    {"success: System loaded!", "success: Processed pages!", "success: Loaded database!"}

ErrorMessages ==
    { "error: Error loading Q&A system", "error: No GROQ_API_KEY found in .env file!",
      "error: Failed to load system", "error: Error processing PDF",
      "error: Error loading vector database", "error: Error creating Q&A chain",
      "error: No existing database found" }

IsPrefix(a, b) == Len(a) <= Len(b) /\ SubSeq(b, 1, Len(a)) = a

\* C1: in both UIs, a run that handles a question (sample button or chat
\* input) while qa_system_loaded is false makes no call of chain.invoke, ends
\* without an exception, and shows a message telling the user to load a
\* document first.
C1_NoGenerationBeforeLoad ==
    [][ (~qa_system_loaded /\ event' \in AskEvents)
            => /\ invocations' = 0
               /\ pc' = "idle"
               /\ shown' \cap LoadFirstMessages # {} ]_vars

C1_Witness ==
    /\ ~qa_system_loaded
    /\ event = "sample_question"
    /\ invocations = 0
    /\ "warning: Please load a document first!" \in shown

\* C2: every question submitted while a document is loaded, typed or chosen
\* with a sample button, moves the session to answering with the user message
\* appended, and the answering run ends in ready with one assistant message
\* appended after it.
C2_EveryQuestionIsAnswered ==
    [][ /\ (qa_system_loaded /\ pc = "idle" /\ event' \in AskEvents)
            => /\ pc' = "answering"
               /\ messages' = Append(messages, UserMessage(question'))
        /\ (pc = "answering")
            => /\ State' = "ready"
               /\ Len(messages') = Len(messages) + 1
               /\ IsPrefix(messages, messages')
               /\ messages'[Len(messages')].role = "assistant"
               /\ messages[Len(messages)] = UserMessage(question) ]_vars

\* C3: every successful load performed while a document is already loaded
\* stores a chain and a retriever and leaves the chat history empty.
C3_ReloadClearsHistory ==
    [][ (qa_system_loaded /\ event' \in LoadEvents /\ shown' \cap SuccessMessages # {})
            => /\ messages' = <<>>
               /\ chain' \notin {Missing, None}
               /\ retriever' \notin {Missing, None} ]_vars

\* C4: "Clear Chat" empties the message history and leaves qa_system_loaded,
\* the chain, the retriever and the current document name unchanged.
C4_ClearChatKeepsDocument ==
    [][ event' = "clear_chat"
            => /\ messages' = <<>>
               /\ UNCHANGED <<qa_system_loaded, chain, retriever, uploaded_file_name>> ]_vars

C4_Witness ==
    /\ event = "clear_chat"
    /\ qa_system_loaded
    /\ messages = <<>>
    /\ chain \notin {Missing, None}
    /\ uploaded_file_name # NoName

\* C5 as claimed: a load ends in ready when it succeeds and in
\* no-document-loaded with an error shown when it fails, from whatever state.
C5_FailedLoadUnloads ==
    [][ event' \in LoadEvents
            => IF shown' \cap SuccessMessages # {}
               THEN State' = "ready"
               ELSE State' = "no-document-loaded" /\ shown' \cap ErrorMessages # {} ]_vars

\* C5 as amended: a load ends in ready when it succeeds; when it fails an
\* error is shown and the session (loaded flag, chain, retriever, document
\* name, history) is left as it was, so a failed load after a successful one
\* stays in ready with the previous document.
C5_FailedLoadKeepsSession ==
    [][ event' \in LoadEvents
            => IF shown' \cap SuccessMessages # {}
               THEN State' = "ready"
               ELSE /\ shown' \cap ErrorMessages # {}
                    /\ pc' = "idle"
                    /\ UNCHANGED sessionVars ]_vars

C5_Witness ==
    /\ event \in LoadEvents
    /\ shown \cap SuccessMessages = {}
    /\ shown \cap ErrorMessages # {}
    /\ qa_system_loaded
    /\ State = "ready"

\* C6: when the generation call fails while a question is answered, no
\* exception escapes, the displayed answer is "Error: <message>", and the
\* history ends with the user message followed by an assistant message with
\* that answer and an empty sources list.
C6_FailedGenerationIsRecorded ==
    [][ (pc = "answering" /\ raised' # "")
            => /\ pc' = "idle"
               /\ shown' = {"answer: Error: " \o raised'}
               /\ messages[Len(messages)] = UserMessage(question)
               /\ messages' = Append(messages,
                                     AssistantMessage("Error: " \o raised', <<>>)) ]_vars

C6_Witness ==
    /\ pc = "idle"
    /\ raised \in LLMFailures
    /\ Len(messages) >= 2
    /\ messages[Len(messages) - 1].role = "user"
    /\ messages[Len(messages)] = AssistantMessage("Error: " \o raised, <<>>)

\* C7: no run that starts with qa_system_loaded false appends a message to
\* the history.
C7_NoMessageBeforeLoad ==
    [][ ~qa_system_loaded => Len(messages') <= Len(messages) ]_vars

C9_HistoryAppendOnly ==
    [][ \/ messages' = messages
        \/ Len(messages') > Len(messages) /\ IsPrefix(messages, messages')
        \/ messages' = <<>> /\ event' \in {"clear_chat"} \cup LoadEvents ]_vars

C9_Witness ==
    /\ Len(messages) >= 3
    /\ messages[1].role = "user"
    /\ messages[2].role = "assistant"
    /\ messages[3].role = "user"

----------------------------------------------------------------------------
(* Properties of the text extractors, checked under SpecExtract *)

\* content, page and type of an extracted item, whichever shape it has:
\* a step10 item, a step11 Document, a step2 record
ItemContent(x) == IF "page_content" \in DOMAIN x THEN x.page_content
                  ELSE IF "content" \in DOMAIN x THEN x.content ELSE x.text
ItemPage(x)    == IF "metadata" \in DOMAIN x THEN x.metadata.page ELSE x.page
ItemType(x)    == IF "metadata" \in DOMAIN x THEN x.metadata.type
                  ELSE IF "type" \in DOMAIN x THEN x.type ELSE "<absent>"

Blank(text) == \A i \in 1..Len(text) : text[i] \in Whitespace

\* items holds exactly one 'text' item for each page that is not blank, none
\* for a blank page, with 1-based increasing page numbers and the page's text
OnePerNonBlankPage(items, pages) ==
    /\ \A i \in 1..Len(items) :
         /\ ItemType(items[i]) = "text"
         /\ ItemPage(items[i]) \in 1..Len(pages)
         /\ ItemContent(items[i]) = pages[ItemPage(items[i])]
    /\ \A i, j \in 1..Len(items) :
         i < j => ItemPage(items[i]) < ItemPage(items[j])
    /\ \A n \in 1..Len(pages) :
         Cardinality({i \in 1..Len(items) : ItemPage(items[i]) = n})
             = IF Blank(pages[n]) THEN 0 ELSE 1

\* C10 as claimed: every text extractor returns exactly one item of type
\* 'text' per page that is not blank and none for a blank page.
C10_EveryExtractorOmitsBlankPages ==
    extractor # "none" => OnePerNonBlankPage(text_content, pdf)

\* C10 as amended: the extractors of step10 and step11 return exactly one
\* item of type 'text' per page that is not blank, none for a blank page, with
\* 1-based increasing page numbers and the unmodified text; the extractor of
\* step2 returns one {page, text} record for every page, blank or not.
C10_ExtractorsByStep ==
    /\ extractor \in {"step10", "step11"} => OnePerNonBlankPage(text_content, pdf)
    /\ extractor = "step2" =>
         /\ Len(text_content) = Len(pdf)
         /\ \A i \in 1..Len(pdf) : text_content[i] = [page |-> i, text |-> pdf[i]]

C10_Witness ==
    /\ extractor = "step10"
    /\ Len(pdf) = 3
    /\ pdf[2] = <<" ">>
    /\ ~Blank(pdf[1]) /\ ~Blank(pdf[3])
    /\ Len(text_content) = 2
    /\ text_content[2].page = 3

----------------------------------------------------------------------------
(* step10_process_all_content.py: text, tables and images of one document, *)
(* and the image extractor of step7_extract_images_ocr.py                  *)

MaxDocPages == 3      \* longest document given to step10 and step7
MaxRuns     == 2      \* how many times step10 is run on the same document

OUTPUT_FOLDER == "processed_content"

\* the result of a call: a returned value or an exception that propagates;
\* files is the disk after the call
Returns(v, files) == [raised |-> FALSE, value |-> v, files |-> files]
Raises(files)     == [raised |-> TRUE, value |-> <<>>, files |-> files]

\* tables as pdfplumber gives them: rows of cells, a cell a string or None
NoneCell     == "<None>"
EmptyTable   == [malformed |-> FALSE, rows |-> <<>>]
PriceTable   == [malformed |-> FALSE, rows |-> << <<"h", NoneCell>>, <<"c", "">> >>]
BrokenTable  == [malformed |-> TRUE, rows |-> <<>>]     \* extracting it raises

\* embedded images: extract_image and the OCR succeed or raise
TextImage    == [ext |-> "png", extract_ok |-> TRUE, ocr_ok |-> TRUE, ocr |-> <<"a">>]
BlankImage   == [ext |-> "jpeg", extract_ok |-> TRUE, ocr_ok |-> TRUE, ocr |-> <<" ">>]
CorruptImage == [ext |-> "png", extract_ok |-> FALSE, ocr_ok |-> FALSE, ocr |-> <<>>]
NoOcrImage   == [ext |-> "png", extract_ok |-> TRUE, ocr_ok |-> FALSE, ocr |-> <<>>]

Page(text, tables, images) == [text |-> text, tables |-> tables, images |-> images]

ContentPages ==
    { Page(<<"a">>, <<>>, <<>>),
      Page(<<"a">>, <<PriceTable>>, <<>>),
      Page(<<" ">>, <<EmptyTable, PriceTable>>, <<TextImage>>),
      Page(<<"a">>, <<>>, <<CorruptImage, TextImage>>),
      Page(<<"a">>, <<BrokenTable, PriceTable>>, <<TextImage>>),
      Page(<<"a">>, <<>>, <<NoOcrImage, BlankImage, TextImage>>) }

ContentPdfs == SeqsUpTo(ContentPages, MaxDocPages)

PageTextsOf(pages) == [i \in 1..Len(pages) |-> pages[i].text]

\* str(h)
str(cell) == IF cell = NoneCell THEN "None" ELSE cell

RECURSIVE join(_, _)
\* sep.join(parts)
join(sep, parts) ==
    IF parts = <<>> THEN ""
    ELSE IF Len(parts) = 1 THEN parts[1]
    ELSE parts[1] \o sep \o join(sep, Tail(parts))

\* the markdown of one table, a sequence of lines
TableMarkdown(table, table_num, page_num) ==
    LET header == table[1]
        rows   == Tail(table)
    IN  << "Table " \o ToString(table_num) \o " (Page " \o ToString(page_num) \o "):",
           "",
           join(" | ", [i \in 1..Len(header) |-> str(header[i])]),
           join(" | ", [i \in 1..Len(header) |-> "---"]) >>
        \o [r \in 1..Len(rows) |->
               join(" | ", [i \in 1..Len(rows[r]) |->
                               IF rows[r][i] \in {NoneCell, ""} THEN "" ELSE str(rows[r][i])])]

RECURSIVE TableItemsOfPage(_, _, _)
\* the loop over the tables table_num..Len(page_tables) of one page
TableItemsOfPage(page_tables, page_num, table_num) ==
    IF table_num > Len(page_tables) THEN <<>>
    ELSE LET table == page_tables[table_num].rows
         IN  (IF Len(table) > 0
              THEN << [content |-> TableMarkdown(table, table_num, page_num),
                       page |-> page_num, type |-> "table", table_number |-> table_num] >>
              ELSE <<>>)
             \o TableItemsOfPage(page_tables, page_num, table_num + 1)

RECURSIVE TableItemsFrom(_, _)
\* the loop of extract_tables_with_pages over pages page_num..Len(pages)
TableItemsFrom(pages, page_num) ==
    IF page_num > Len(pages) THEN <<>>
    ELSE TableItemsOfPage(pages[page_num].tables, page_num, 1)
         \o TableItemsFrom(pages, page_num + 1)

\* a table pdfplumber cannot extract raises inside the page loop
TableFailure(pages) ==
    \E p \in 1..Len(pages) : \E t \in 1..Len(pages[p].tables) : pages[p].tables[t].malformed

\* step10: no exception handler, so the failure of one table ends the call
extract_tables_with_pages(pages, files) ==
    IF TableFailure(pages) THEN Raises(files)
    ELSE Returns(TableItemsFrom(pages, 1), files)

\* a faulty variant of makedirs: os.makedirs(path) without exist_ok=True
makedirs_exclusive(path, files) ==
    IF path \in files THEN Raises(files) ELSE Returns(path, files \cup {path})

\* os.makedirs(path, exist_ok=True)
makedirs(path, files) == Returns(path, files \cup {path})

ImagePath(folder, page_num, img_index, image_ext) ==
    folder \o "/page" \o ToString(page_num) \o "_img" \o ToString(img_index) \o "." \o image_ext

RECURSIVE OcrItemsOfPage_KeepBlank(_, _, _, _)
\* a faulty variant of OcrItemsOfPage: "if ocr_text:" instead of "if ocr_text.strip():"
OcrItemsOfPage_KeepBlank(images, page_num, img_index, img_folder) ==
    IF img_index > Len(images) THEN <<>>
    ELSE LET img        == images[img_index]
             image_path == ImagePath(img_folder, page_num, img_index, img.ext)
         IN  (IF img.extract_ok /\ img.ocr_ok /\ img.ocr # <<>>
              THEN << [content |-> << "Image OCR (Page " \o ToString(page_num) \o "):" >> \o img.ocr,
                       page |-> page_num, type |-> "image_ocr", image_path |-> image_path] >>
              ELSE <<>>)
             \o OcrItemsOfPage_KeepBlank(images, page_num, img_index + 1, img_folder)

RECURSIVE OcrItemsOfPage(_, _, _, _)
\* step10: the loop over the images img_index..Len(image_list) of one page; an
\* image whose extraction or OCR raises is reported and skipped
OcrItemsOfPage(images, page_num, img_index, img_folder) ==
    IF img_index > Len(images) THEN <<>>
    ELSE LET img        == images[img_index]
             image_path == ImagePath(img_folder, page_num, img_index, img.ext)
         IN  (IF img.extract_ok /\ img.ocr_ok /\ strip(img.ocr) # <<>>
              THEN << [content |-> << "Image OCR (Page " \o ToString(page_num) \o "):" >> \o img.ocr,
                       page |-> page_num, type |-> "image_ocr", image_path |-> image_path] >>
              ELSE <<>>)
             \o OcrItemsOfPage(images, page_num, img_index + 1, img_folder)

RECURSIVE OcrItemsFrom(_, _, _)
OcrItemsFrom(pages, page_num, img_folder) ==
    IF page_num > Len(pages) THEN <<>>
    ELSE OcrItemsOfPage(pages[page_num].images, page_num, 1, img_folder)
         \o OcrItemsFrom(pages, page_num + 1, img_folder)

\* the image files step10 writes: one for every image that could be extracted
OcrImageFiles(pages, img_folder) ==
    UNION { { ImagePath(img_folder, p, i, pages[p].images[i].ext) :
                i \in { j \in 1..Len(pages[p].images) : pages[p].images[j].extract_ok } } :
            p \in 1..Len(pages) }

\* step10: extract_images_with_ocr(PDF_PATH, OUTPUT_FOLDER)
extract_images_with_ocr(pages, output_folder, files) ==
    LET img_folder == output_folder \o "/images"
        made       == makedirs(img_folder, files)
    IN  IF made.raised THEN Raises(files)
        ELSE Returns(OcrItemsFrom(pages, 1, img_folder),
                     made.files \cup OcrImageFiles(pages, img_folder))

\* step7: the images before the first one that cannot be extracted, in page order
RECURSIVE ImageListFrom(_, _, _, _)
ImageListFrom(pages, page_num, img_index, output_folder) ==
    IF page_num > Len(pages) THEN [raised |-> FALSE, value |-> <<>>]
    ELSE IF img_index > Len(pages[page_num].images)
         THEN ImageListFrom(pages, page_num + 1, 1, output_folder)
    ELSE LET img  == pages[page_num].images[img_index]
             rest == ImageListFrom(pages, page_num, img_index + 1, output_folder)
         IN  IF ~img.extract_ok THEN [raised |-> TRUE, value |-> <<>>]
             ELSE [raised |-> rest.raised,
                   value  |-> << [page |-> page_num,
                                  filename |-> ImagePath(output_folder, page_num, img_index, img.ext)] >>
                              \o rest.value]

\* step7: extract_images_from_pdf(PDF_PATH); extract_image is called outside any
\* try, so the first image that fails ends the call; the files written before
\* it stay on disk
extract_images_from_pdf(pages, output_folder, files) ==
    LET made  == IF output_folder \in files THEN files ELSE files \cup {output_folder}
        found == ImageListFrom(pages, 1, 1, output_folder)
        saved == made \cup { found.value[i].filename : i \in 1..Len(found.value) }
    IN  IF found.raised THEN Raises(saved) ELSE Returns(found.value, saved)

\* a faulty variant of create_documents_with_metadata: the position in the list
\* is stored as the page
create_documents_numbering_items(content) ==
    [i \in 1..Len(content) |->
        Document(content[i].content,
                 [page |-> i, type |-> content[i].type, source |-> "document.pdf"])]

\* step10: create_documents_with_metadata(all_content)
create_documents_with_metadata(content) ==
    [i \in 1..Len(content) |->
        Document(content[i].content,
                 [page |-> content[i].page, type |-> content[i].type, source |-> "document.pdf"])]

\* step10: save_all_content(all_content, OUTPUT_FOLDER)
save_all_content(content, output_folder, files) ==
    files \cup {output_folder, output_folder \o "/all_content.json", output_folder \o "/all_content.txt"}

\* step10: create_enhanced_vectorstore(documents) and vectorstore.save_local,
\* none of it inside a try
create_enhanced_vectorstore(docs, ext, files) ==
    LET splits == split_documents(docs)
    IN  IF ext.emb /\ ext.faiss /\ splits # <<>>
        THEN Returns(VectorStore(splits), files \cup {"faiss_index_enhanced"})
        ELSE Raises(files)

InitContent ==
    /\ NoSession
    /\ NoExtraction
    /\ source_doc \in ContentPdfs
    /\ fs = {}
    /\ runs = 0
    /\ outcome = "not run"
    /\ table_content = <<>>
    /\ image_content = <<>>
    /\ all_content = <<>>
    /\ first_run = [ran |-> FALSE, extracted |-> FALSE, all_content |-> <<>>]
    /\ content_documents = <<>>
    /\ image_list = [raised |-> FALSE, value |-> <<>>]
    /\ NoChunking
    /\ NoSearch
    /\ NoScript
    /\ NoExport

\* step10: one run of main() on the document
ProcessAllContent ==
    /\ runs < MaxRuns
    /\ \E ext \in { e \in ExternalOutcomes : e.groq } :     \* step10 makes no call to Groq
      \E text \in {extract_text_with_pages(PageTextsOf(source_doc))},
         tables \in {extract_tables_with_pages(source_doc, fs)} :
      \E images \in {extract_images_with_ocr(source_doc, OUTPUT_FOLDER, tables.files)} :
      \E content \in {text \o tables.value \o images.value} :
      \E docs \in {create_documents_with_metadata(content)} :
        LET saved   == save_all_content(content, OUTPUT_FOLDER, images.files)
            store   == create_enhanced_vectorstore(docs, ext, saved)
            extracted == ~tables.raised /\ ~images.raised
        IN  /\ text_content' = text
            /\ table_content' = tables.value
            /\ image_content' = IF extracted THEN images.value ELSE <<>>
            /\ all_content' = IF extracted THEN content ELSE <<>>
            /\ content_documents' = IF extracted THEN docs ELSE <<>>
            /\ fs' = IF tables.raised THEN fs
                     ELSE IF images.raised THEN images.files
                     ELSE store.files
            /\ outcome' = IF tables.raised THEN "Traceback: extract_tables_with_pages"
                          ELSE IF images.raised THEN "Traceback: extract_images_with_ocr"
                          ELSE IF store.raised THEN "Traceback: create_enhanced_vectorstore"
                          ELSE "PROCESSING COMPLETE"
            /\ first_run' = IF runs = 0
                            THEN [ran |-> TRUE, extracted |-> extracted,
                                  all_content |-> IF extracted THEN content ELSE <<>>]
                            ELSE first_run
    /\ runs' = runs + 1
    /\ UNCHANGED <<source_doc, image_list, pdf, extractor, uiVars, chunkVars, searchVars,
                   scriptVars, exportVars>>

\* step7: images = extract_images_from_pdf(pdf_path)
ExtractImagesStep7 ==
    /\ LET result == extract_images_from_pdf(source_doc, "extracted_images", fs)
       IN  /\ image_list' = [raised |-> result.raised, value |-> result.value]
           /\ fs' = result.files
    /\ UNCHANGED <<source_doc, runs, outcome, table_content, image_content, all_content,
                   first_run, content_documents, extractVars, uiVars, chunkVars, searchVars,
                   scriptVars, exportVars>>

NextContent ==
    \/ ProcessAllContent
    \/ ExtractImagesStep7

SpecContent == InitContent /\ [][NextContent]_vars

----------------------------------------------------------------------------
(* Claims about the complete extraction of step10 *)

\* main() got past the three extractors: all_content was assigned
ContentExtracted ==
    outcome \in {"PROCESSING COMPLETE", "Traceback: create_enhanced_vectorstore"}

NonBlankTextPages(pages) ==
    { p \in 1..Len(pages) : strip(pages[p].text) # <<>> }

NonEmptyTables(pages) ==
    UNION { { <<p, t>> : t \in { u \in 1..Len(pages[p].tables) :
                                    Len(pages[p].tables[u].rows) > 0 } } :
            p \in 1..Len(pages) }

ImagesWithOcrText(pages) ==
    UNION { { <<p, i>> : i \in { j \in 1..Len(pages[p].images) :
                                    /\ pages[p].images[j].extract_ok
                                    /\ pages[p].images[j].ocr_ok
                                    /\ strip(pages[p].images[j].ocr) # <<>> } } :
            p \in 1..Len(pages) }

TypeRank(type) == IF type = "text" THEN 1 ELSE IF type = "table" THEN 2 ELSE 3

\* three pages with text, one table on page 2, no images
ThreePagesOneTable ==
    << Page(<<"a">>, <<>>, <<>>), Page(<<"a">>, <<PriceTable>>, <<>>), Page(<<"a">>, <<>>, <<>>) >>

\* C11: the complete extraction of a document is the text items, then the table
\* items, then the image items: as many items as pages with text, non-empty
\* tables and images with non-empty OCR text together; three pages of text with
\* one table on page 2 and no image give exactly 4 items
C11_CompleteExtraction ==
    ContentExtracted =>
        /\ all_content = text_content \o table_content \o image_content
        /\ Len(all_content) = Cardinality(NonBlankTextPages(source_doc))
                              + Cardinality(NonEmptyTables(source_doc))
                              + Cardinality(ImagesWithOcrText(source_doc))
        /\ \A i, j \in 1..Len(all_content) :
              i < j => TypeRank(all_content[i].type) <= TypeRank(all_content[j].type)
        /\ \A i \in 1..Len(all_content) : all_content[i].type \in {"text", "table", "image_ocr"}
        /\ source_doc = ThreePagesOneTable => Len(all_content) = 4

C11_Witness ==
    /\ ContentExtracted
    /\ source_doc = ThreePagesOneTable
    /\ Len(all_content) = 4
    /\ all_content[4].type = "table"

ExtractableImages(pages) ==
    UNION { { <<p, i>> : i \in { j \in 1..Len(pages[p].images) : pages[p].images[j].extract_ok } } :
            p \in 1..Len(pages) }

Step7Ran == "extracted_images" \in fs

\* C12: in every extractor the failure of one single table or image is skipped:
\* the extractor still returns, with the items of all the tables and images
\* that did not fail (the tables and images of step10, the images of step7)
C12_ItemFailuresAreSkipped ==
    /\ runs > 0 =>
          /\ outcome # "Traceback: extract_tables_with_pages"
          /\ Len(table_content) = Cardinality(NonEmptyTables(source_doc))
          /\ outcome # "Traceback: extract_images_with_ocr"
          /\ Len(image_content) = Cardinality(ImagesWithOcrText(source_doc))
    /\ Step7Ran =>
          /\ ~image_list.raised
          /\ Len(image_list.value) = Cardinality(ExtractableImages(source_doc))

\* C13: create_documents_with_metadata maps the content items one to one: as
\* many documents, in the same order, each with the content, page and type of
\* its item and with a source identifier; the items themselves are unchanged
C13_DocumentsMirrorContent ==
    ContentExtracted =>
        /\ Len(content_documents) = Len(all_content)
        /\ \A i \in 1..Len(all_content) :
              /\ content_documents[i].page_content = all_content[i].content
              /\ content_documents[i].metadata.page = all_content[i].page
              /\ content_documents[i].metadata.type = all_content[i].type
              /\ content_documents[i].metadata.source = "document.pdf"
        /\ all_content = text_content \o table_content \o image_content

C13_Witness ==
    /\ ContentExtracted
    /\ \E i, j \in 1..Len(content_documents) :
          /\ content_documents[i].metadata.type = "table"
          /\ content_documents[i].metadata.page # i
          /\ content_documents[j].metadata.type = "image_ocr"

\* C17: running the extractors of step10 a second time on the same document
\* returns the same items as the first run, page numbers, table numbers and
\* image paths included, whatever files the first run left on disk
C17_ExtractionIsRepeatable ==
    runs >= 2 =>
        /\ first_run.extracted = ContentExtracted
        /\ all_content = first_run.all_content

C17_Witness ==
    /\ runs >= 2
    /\ ContentExtracted
    /\ all_content = first_run.all_content
    /\ \E i, j \in 1..Len(all_content) :
          /\ all_content[i].type = "image_ocr"
          /\ all_content[i].image_path \in fs
          /\ all_content[j].type = "table"
          /\ all_content[j].table_number = 2

----------------------------------------------------------------------------
(* The text splitter on its own: split_text on any short text, with chunk   *)
(* sizes scaled down so that short texts are cut into several chunks        *)

MaxChunkText == 5     \* longest text given to the splitter
MaxChunkSize == 3     \* largest chunk_size tried

SplitChars == {"a", "b", " ", "\n"}

InitChunk ==
    /\ NoSession
    /\ NoExtraction
    /\ NoContent
    /\ chunk_text \in SeqsUpTo(SplitChars, MaxChunkText)
    /\ chunk_size \in 1..MaxChunkSize
    /\ chunk_overlap \in 0..(chunk_size - 1)
    /\ chunks = <<>>
    /\ chunked = FALSE
    /\ NoSearch
    /\ NoScript
    /\ NoExport

\* chunks = text_splitter.split_text(full_text)
SplitText ==
    /\ ~chunked
    /\ chunks' = split_text(chunk_text, chunk_size, chunk_overlap)
    /\ chunked' = TRUE
    /\ UNCHANGED <<chunk_text, chunk_size, chunk_overlap, uiVars, extractVars, contentVars,
                   searchVars, scriptVars, exportVars>>

NextChunk == SplitText

SpecChunk == InitChunk /\ [][NextChunk]_vars

Prefix(text, n) == SubSeq(text, 1, n)
Suffix(text, n) == SubSeq(text, Len(text) - n + 1, Len(text))

\* two consecutive chunks share n characters: the last n of the first are the
\* first n of the second
Share(first, second, n) ==
    /\ Len(first) >= n
    /\ Len(second) >= n
    /\ Suffix(first, n) = Prefix(second, n)

NoWhitespace(text) == \A i \in 1..Len(text) : text[i] \notin Whitespace

Overlapping(previous, chunk, overlap) ==
    CHOOSE n \in 0..overlap :
        /\ Share(previous, chunk, n)
        /\ \A m \in 0..overlap : Share(previous, chunk, m) => m <= n

RECURSIVE ReconstructFrom(_, _, _)
\* the chunks i..Len(chunks), each without the prefix that overlaps the chunk
\* before it, concatenated
ReconstructFrom(chunks_, i, overlap) ==
    IF i > Len(chunks_) THEN <<>>
    ELSE LET n == IF i = 1 THEN 0 ELSE Overlapping(chunks_[i - 1], chunks_[i], overlap)
         IN  SubSeq(chunks_[i], n + 1, Len(chunks_[i])) \o ReconstructFrom(chunks_, i + 1, overlap)

Reconstruct(chunks_, overlap) == ReconstructFrom(chunks_, 1, overlap)

IsSubstring(part, text) ==
    \E i \in 1..(Len(text) + 1) : IsAt(text, part, i)

----------------------------------------------------------------------------
(* The retriever on its own: any small index, k = 3 (step5, step5b, step8)  *)
(* or k = 5 (step11)                                                        *)

MaxIndex == 6         \* largest vector index searched

RetrieverKs == {3, 5}

IndexDocuments ==
    { Document(<<"a">>, [source |-> "qatar_test_doc.pdf"]),
      Document(<<"a", "b">>, [source |-> "qatar_test_doc.pdf"]),
      Document(<<"a", "b", "a">>, [source |-> "qatar_test_doc.pdf"]) }

Queries == { <<"b">>, <<"a", "b", "a", "b">> }

InitSearch ==
    /\ NoSession
    /\ NoExtraction
    /\ NoContent
    /\ NoChunking
    /\ search_index \in SeqsUpTo(IndexDocuments, MaxIndex)
    /\ search_k \in RetrieverKs
    /\ search_query \in Queries
    /\ search_results = <<>>
    /\ searched = FALSE
    /\ NoScript
    /\ NoExport

\* source_docs = retriever.invoke(question)
RetrieverInvoke ==
    /\ ~searched
    /\ search_results' = retriever_invoke(Retriever(VectorStore(search_index), search_k), search_query)
    /\ searched' = TRUE
    /\ UNCHANGED <<search_index, search_k, search_query, uiVars, extractVars, contentVars,
                   chunkVars, scriptVars, exportVars>>

NextSearch == RetrieverInvoke

SpecSearch == InitSearch /\ [][NextSearch]_vars

\* how many times a document occurs in a sequence of documents
Occurrences(doc, docs) == Cardinality({ i \in 1..Len(docs) : docs[i] = doc })

\* C16: a retriever with k returns exactly min(k, size of the index) chunks of
\* the index, the most similar first and none of those left out more similar
\* than one returned; an empty index gives the empty sequence
C16_RetrieverReturnsNearest ==
    searched =>
        /\ Len(search_results) = Min(search_k, Len(search_index))
        /\ \A i, j \in 1..Len(search_results) :
              i < j => Distance(search_query, search_results[i].page_content)
                       <= Distance(search_query, search_results[j].page_content)
        /\ \A doc \in IndexDocuments :
              /\ Occurrences(doc, search_results) <= Occurrences(doc, search_index)
              /\ Occurrences(doc, search_results) < Occurrences(doc, search_index) =>
                    \A i \in 1..Len(search_results) :
                        Distance(search_query, search_results[i].page_content)
                        <= Distance(search_query, doc.page_content)
        /\ search_index = <<>> => search_results = <<>>

C16_Witness ==
    /\ searched
    /\ Len(search_index) > search_k
    /\ Len(search_results) = search_k
    /\ Distance(search_query, search_results[1].page_content)
       < Distance(search_query, search_results[search_k].page_content)
    /\ Distance(search_query, search_index[1].page_content)
       > Distance(search_query, search_results[1].page_content)

----------------------------------------------------------------------------
(* The command-line scripts, step by step: what each one reads, which      *)
(* external services it calls, what it writes, and what it does when a     *)
(* read or a call fails                                                    *)

MaxAsked == 2         \* questions asked in the loop of step5b

PDF        == "qatar_test_doc.pdf"
TEXT_FILE  == "extracted_text.txt"
API_KEY    == "GROQ_API_KEY"

RequiredInputs == {PDF, TEXT_FILE, API_KEY}

\* a step that reads a required input; on_failure says what the code around
\* the read does when the input is missing: "exit" (message, exit(1)),
\* "propagate" (no handler, the traceback ends the script) or "resume" (an
\* except block prints a message and the script goes on at step resume)
Open(input, on_failure, resume) ==
    [op |-> "open", arg |-> input, on_failure |-> on_failure, resume |-> resume]

\* a step that calls an external service: "emb" constructs the embedding
\* model, "faiss" builds, saves or loads a vector index, "groq" constructs the
\* hosted model
Call(service, on_failure) ==
    [op |-> "call", arg |-> service, on_failure |-> on_failure, resume |-> 0]

\* a step that creates a file or folder; "if any" when it is written only if
\* the PDF holds something to save
Write(artifact, when) ==
    [op |-> "write", arg |-> artifact, on_failure |-> when, resume |-> 0]

Success == [op |-> "success", arg |-> "", on_failure |-> "", resume |-> 0]
Ask     == [op |-> "ask", arg |-> "", on_failure |-> "report", resume |-> 0]

Step2Script ==
    << Open(PDF, "propagate", 0),
       Write(TEXT_FILE, "always"),
       Success >>

Step3Script ==
    << Open(TEXT_FILE, "propagate", 0),
       Success >>

Step4Script ==
    << Open(TEXT_FILE, "exit", 0),
       Call("emb", "exit"),
       Call("faiss", "exit"),
       Call("faiss", "exit"),
       Write("faiss_index", "always"),
       Success >>

Step5Script ==
    << Call("emb", "propagate"),
       Call("faiss", "propagate"),
       Success >>

Step5bScript ==
    << Open(API_KEY, "exit", 0),
       Call("emb", "propagate"),
       Call("faiss", "propagate"),
       Call("groq", "propagate"),
       Success,
       Ask >>

Step6Script ==
    << Open(PDF, "resume", 4),
       Write("extracted_tables.json", "if any"),
       Write("extracted_tables.txt", "if any"),
       Success >>

Step7Script ==
    << Write("extracted_images", "always"),
       Open(PDF, "propagate", 0),
       Write("extracted_images/page1_img1.png", "if any"),
       Write("ocr_results.txt", "if any"),
       Success >>

Step9Script ==
    << Open(PDF, "propagate", 0),
       Write("extracted_tables.txt", "if any"),
       Write("extracted_tables.json", "if any"),
       Success >>

Step10Script ==
    << Open(PDF, "propagate", 0),
       Write("processed_content/images", "always"),
       Write("processed_content/all_content.json", "always"),
       Write("processed_content/all_content.txt", "always"),
       Call("emb", "propagate"),
       Call("faiss", "propagate"),
       Call("faiss", "propagate"),
       Write("faiss_index_enhanced", "always"),
       Success >>

Scripts ==
    [step2 |-> Step2Script, step3 |-> Step3Script, step4 |-> Step4Script,
     step5 |-> Step5Script, step5b |-> Step5bScript, step6 |-> Step6Script,
     step7 |-> Step7Script, step9 |-> Step9Script, step10 |-> Step10Script]

Steps       == Scripts[script]
CurrentStep == Steps[spc]
Running     == halted = "running"

InitScripts ==
    /\ NoSession
    /\ NoExtraction
    /\ NoContent
    /\ NoChunking
    /\ NoSearch
    /\ NoExport
    /\ script \in DOMAIN Scripts
    /\ present \in SUBSET RequiredInputs
    /\ services \in ExternalOutcomes
    /\ has_content \in BOOLEAN
    /\ spc = 1
    /\ halted = "running"
    /\ artifacts = {}
    /\ log = <<>>
    /\ missing = "none"
    /\ failed_call = "none"
    /\ asked = 0

\* the script goes on at step n, or ends after its last step
GoOn(n) ==
    /\ spc' = n
    /\ halted' = IF n > Len(Steps) THEN "finished" ELSE "running"

\* what happens when the read or call of the current step fails
Fail ==
    IF CurrentStep.on_failure = "exit"
    THEN /\ log' = Append(log, "error")
         /\ halted' = "exit(1)"
         /\ spc' = spc
    ELSE IF CurrentStep.on_failure = "resume"
    THEN /\ log' = Append(log, "error")
         /\ GoOn(CurrentStep.resume)
    ELSE /\ log' = Append(log, "traceback")
         /\ halted' = "traceback"
         /\ spc' = spc

\* the script reads a required input
OpenInput ==
    /\ Running
    /\ CurrentStep.op = "open"
    /\ IF CurrentStep.arg \in present
       THEN /\ GoOn(spc + 1)
            /\ UNCHANGED <<log, missing>>
       ELSE /\ missing' = CurrentStep.arg
            /\ Fail
    /\ UNCHANGED <<script, present, services, has_content, artifacts, failed_call, asked,
                   uiVars, extractVars, contentVars, chunkVars, searchVars, exportVars>>

\* the script calls an external service
CallService ==
    /\ Running
    /\ CurrentStep.op = "call"
    /\ IF services[CurrentStep.arg]
       THEN /\ GoOn(spc + 1)
            /\ UNCHANGED <<log, failed_call>>
       ELSE /\ failed_call' = CurrentStep.arg
            /\ Fail
    /\ UNCHANGED <<script, present, services, has_content, artifacts, missing, asked,
                   uiVars, extractVars, contentVars, chunkVars, searchVars, exportVars>>

\* the script creates an output file or folder
WriteArtifact ==
    /\ Running
    /\ CurrentStep.op = "write"
    /\ artifacts' = IF CurrentStep.on_failure = "always" \/ has_content
                    THEN artifacts \cup {CurrentStep.arg} ELSE artifacts
    /\ GoOn(spc + 1)
    /\ UNCHANGED <<script, present, services, has_content, log, missing, failed_call, asked,
                   uiVars, extractVars, contentVars, chunkVars, searchVars, exportVars>>

\* the script prints its message of success
ReportSuccess ==
    /\ Running
    /\ CurrentStep.op = "success"
    /\ log' = Append(log, "success")
    /\ GoOn(spc + 1)
    /\ UNCHANGED <<script, present, services, has_content, artifacts, missing, failed_call,
                   asked, uiVars, extractVars, contentVars, chunkVars, searchVars, exportVars>>

\* step5b: one question in the loop; chain.invoke returns or raises inside the try
AskQuestion ==
    /\ Running
    /\ CurrentStep.op = "ask"
    /\ asked < MaxAsked
    /\ asked' = asked + 1
    /\ \E answered \in BOOLEAN :
          IF answered
          THEN /\ log' = Append(log, "answer")
               /\ UNCHANGED failed_call
          ELSE /\ log' = Append(log, "error")
               /\ failed_call' = "generation"
    /\ UNCHANGED <<script, present, services, has_content, spc, halted, artifacts, missing,
                   uiVars, extractVars, contentVars, chunkVars, searchVars, exportVars>>

\* step5b: "quit" ends the loop
Quit ==
    /\ Running
    /\ CurrentStep.op = "ask"
    /\ halted' = "finished"
    /\ UNCHANGED <<script, present, services, has_content, spc, artifacts, log, missing,
                   failed_call, asked, uiVars, extractVars, contentVars, chunkVars, searchVars, exportVars>>

NextScripts ==
    \/ OpenInput
    \/ CallService
    \/ WriteArtifact
    \/ ReportSuccess
    \/ AskQuestion
    \/ Quit

SpecScripts == InitScripts /\ [][NextScripts]_vars

\* C18: in every script, when a required input (the PDF, extracted_text.txt,
\* GROQ_API_KEY) is missing, the script halts with a message before it has
\* created any output, and neither reports success nor runs a later step
C18_MissingInputHalts ==
    missing # "none" =>
        /\ artifacts = {}
        /\ halted \in {"exit(1)", "traceback"}
        /\ log[Len(log)] \in {"error", "traceback"}

\* C19: every failure of an external service (embedding model, vector index,
\* hosted model) is caught where the call is made and reported: no exception
\* ends the script, and the question loop of step5b goes on
C19_ServiceFailuresAreCaught ==
    failed_call # "none" =>
        /\ halted # "traceback"
        /\ "error" \in { log[i] : i \in 1..Len(log) }
        /\ failed_call = "generation" => halted \in {"running", "finished"}

----------------------------------------------------------------------------
(* Claims about what a Streamlit process loads *)

\* C20 as stated: within one process, across any sequence of loads and
\* questions, the embedding model is constructed at most once and the
\* persisted vector index is deserialized at most once
C20_LoadedAtMostOnce ==
    /\ emb_constructions <= 1
    /\ index_loads <= 1

\* C20: within one process the embedding model is constructed at most once,
\* and step8 deserializes the persisted index at most once; step11 caches the
\* embedding model only
C20_EmbeddingsLoadedOnce ==
    /\ emb_constructions <= 1
    /\ ui = "step8" => index_loads <= 1
    /\ cache_emb => emb_constructions = 1

C20_Witness ==
    /\ ui = "step11"
    /\ event = "load_existing_document"
    /\ index_loads = 2
    /\ emb_constructions = 1
    /\ qa_system_loaded

----------------------------------------------------------------------------
(* Chat export (step11): the transcript is a sequence of lines, a line the  *)
(* sequence of the pieces its f-string is put together from                  *)

RULE_WIDTH == 80      \* "="*80 and "-"*80

MaxExport == 3        \* longest history exported

RECURSIVE Repeat(_, _)
\* c * n
Repeat(c, n) == IF n = 0 THEN "" ELSE c \o Repeat(c, n - 1)

\* f"{...}" of a page number: the default 'Unknown' is a string already
PageStr(page) == IF page = UnknownPage THEN "Unknown" ELSE ToString(page)

BlankLine == <<>>

\* a faulty variant of SourceLines: every citation of a message is numbered 1
SourceLines_Unnumbered(sources) ==
    [i \in 1..Len(sources) |->
        <<"  [", "1", "] Page ", PageStr(sources[i].page), " (", sources[i].type, ")">>]

\* for i, source in enumerate(msg["sources"], 1): "  [i] Page p (type)\n"
SourceLines(sources) ==
    [i \in 1..Len(sources) |->
        <<"  [", ToString(i), "] Page ", PageStr(sources[i].page), " (", sources[i].type, ")">>]

\* the lines one message adds to the transcript
MessageLines(msg) ==
    << <<(IF msg.role = "user" THEN "You" ELSE "Assistant"), ": ", msg.content>>, BlankLine >>
    \o (IF msg.role = "assistant" /\ "sources" \in DOMAIN msg
        THEN << <<"Sources:">> >> \o SourceLines(msg.sources) \o << BlankLine >>
        ELSE <<>>)
    \o << <<Repeat("-", RULE_WIDTH)>>, BlankLine >>

RECURSIVE TranscriptFrom(_, _)
\* for msg in st.session_state.messages: ...
TranscriptFrom(history, i) ==
    IF i > Len(history) THEN <<>>
    ELSE MessageLines(history[i]) \o TranscriptFrom(history, i + 1)

\* export_chat_history(), reading st.session_state and the clock
export_chat_history(history, name, now) ==
    IF history = <<>> THEN None
    ELSE [kind  |-> "text",
          lines |-> << <<"Chat History - ", now>>,
                       <<"Document: ", (IF name = NoName THEN "Default Document" ELSE name)>>,
                       <<Repeat("=", RULE_WIDTH)>>, BlankLine >>
                    \o TranscriptFrom(history, 1)]

\* datetime.now().strftime('%Y-%m-%d %H:%M:%S')
Clock == {"2026-01-01 09:00:00", "2026-01-01 09:00:01"}

\* the citations an assistant message of step11 can hold
ExportSources ==
    { <<>>,
      << [page |-> 2, type |-> "table", content |-> <<"a", " ", "a">>] >>,
      << [page |-> 2, type |-> "table", content |-> <<"a", " ", "a">>],
         [page |-> 1, type |-> "text", content |-> <<"a">>] >>,
      << [page |-> UnknownPage, type |-> "text", content |-> <<"a", "a">>] >> }

ExportMessages ==
    { UserMessage(q) : q \in TypedQuestions \cup {samples[1]} }
    \cup { AssistantMessage(a, src) : a \in Answers, src \in ExportSources }
    \cup { AssistantMessage("Error: " \o e, <<>>) : e \in LLMFailures }

\* the histories the step11 handlers build: an answer follows its question
ExportHistories ==
    { h \in SeqsUpTo(ExportMessages, MaxExport) :
        \A i \in 1..Len(h) :
            h[i].role = "assistant" => i > 1 /\ h[i - 1].role = "user" }

InitExport ==
    /\ ui = "step11"
    /\ messages \in ExportHistories
    /\ qa_system_loaded = (messages # <<>>)
    /\ chain = Missing
    /\ retriever = Missing
    /\ uploaded_file_name \in {NoName, "report.pdf", "Existing (enhanced)"}
    /\ uploaded_file = NoFile
    /\ pc = "idle"
    /\ question = ""
    /\ event = "start"
    /\ shown = MainChatInterface(ui, qa_system_loaded)
    /\ invocations = 0
    /\ raised = ""
    /\ loads_run = 0
    /\ tmp_file = "none"
    /\ db_type = NoName
    /\ api_key = TRUE
    /\ disk = {}
    /\ cache_qa = NotCached
    /\ cache_emb = FALSE
    /\ emb_constructions = 0
    /\ index_loads = 0
    /\ NoExtraction
    /\ NoContent
    /\ NoChunking
    /\ NoSearch
    /\ NoScript
    /\ NoExport

\* a call of export_chat_history()
ExportChatHistory ==
    /\ ~exported
    /\ \E now \in Clock :
         export_text' = export_chat_history(messages, uploaded_file_name, now)
    /\ exported' = TRUE
    /\ UNCHANGED <<download, uiVars, extractVars, contentVars, chunkVars, searchVars,
                   scriptVars>>

\* the sidebar column of the export: the download button is rendered with the
\* transcript of a non-empty history
ExportButton ==
    /\ download = None
    /\ messages # <<>>
    /\ \E now \in Clock :
       \E text \in {export_chat_history(messages, uploaded_file_name, now)} :
         /\ text # None
         /\ download' = text
    /\ UNCHANGED <<export_text, exported, uiVars, extractVars, contentVars, chunkVars,
                   searchVars, scriptVars>>

NextExport ==
    \/ ExportChatHistory
    \/ ExportButton

SpecExport == InitExport /\ [][NextExport]_vars

\* the positions of the lines of a transcript that open a message
TurnLines(lines) ==
    SelectSeq([i \in 1..Len(lines) |-> i],
              LAMBDA i : Len(lines[i]) = 3 /\ lines[i][2] = ": ")

\* the citation lines of a transcript between two positions
CitationsBetween(lines, from, to) ==
    SelectSeq(SubSeq(lines, from, to), LAMBDA l : Len(l) = 7 /\ l[1] = "  [")

\* the transcript lists the history: one opening line per message, in history
\* order, with role label and content, followed by the message's citations
Lists(lines, history) ==
    LET turns == TurnLines(lines)
    IN  /\ Len(turns) = Len(history)
        /\ \A n \in 1..Len(turns) :
              LET msg   == history[n]
                  line  == lines[turns[n]]
                  until == IF n < Len(turns) THEN turns[n + 1] - 1 ELSE Len(lines)
                  cites == CitationsBetween(lines, turns[n] + 1, until)
              IN  /\ line[1] = (IF msg.role = "user" THEN "You" ELSE "Assistant")
                  /\ line[3] = msg.content
                  /\ IF msg.role = "assistant"
                     THEN /\ Len(cites) = Len(msg.sources)
                          /\ \A c \in 1..Len(cites) :
                                /\ cites[c][2] = ToString(c)
                                /\ cites[c][4] = PageStr(msg.sources[c].page)
                                /\ cites[c][6] = msg.sources[c].type
                     ELSE cites = <<>>

\* C21: export_chat_history returns None for an empty history and otherwise a
\* transcript that lists every message once, in history order, with its role
\* label and content and, for an assistant message, its citations numbered
\* 1..n in stored order with page and type
C21_ExportListsHistory ==
    /\ exported =>
          IF messages = <<>> THEN export_text = None
          ELSE export_text # None /\ Lists(export_text.lines, messages)
    /\ download # None => Lists(download.lines, messages)

C21_Witness ==
    /\ exported
    /\ Len(messages) = MaxExport
    /\ messages[2].role = "assistant"
    /\ Len(messages[2].sources) = 2
    /\ messages[3].role = "user"
    /\ export_text # None
    /\ download # None

----------------------------------------------------------------------------
(* Claims about retries *)

\* the last run was a load action that did not succeed
FailedLoad == event \in LoadEvents /\ shown \cap SuccessMessages = {}

\* the operator presses the button of the load that has just failed
ManualRetry == FailedLoad /\ pc = "idle" /\ pc' = "idle" /\ event' = event

\* a run calls the generation service at most once, and only to answer the
\* question submitted to it; a run executes a load at most once, and only for
\* a load button
OneCallPerAction ==
    /\ invocations' <= 1
    /\ invocations' > 0 => pc = "answering"
    /\ loads_run' <= 1
    /\ loads_run' > 0 => pc = "idle" /\ event' \in LoadEvents

\* a manual retry of a failed load executes the load again
RetryReexecutes == ManualRetry => loads_run' = 1

\* C22: no automatic retries: the generation service is invoked at most once
\* for a submitted question, no external call is issued but by a new action of
\* the operator, and a manual retry of a failed load executes the load again
\* instead of replaying the earlier failure
C22_NoRetriesAndRetryReexecutes == [][OneCallPerAction /\ RetryReexecutes]_vars

----------------------------------------------------------------------------
(* Claims about the session of a chat application *)

\* the session holds what the chat input handler reads
ChainStored ==
    /\ chain \notin {Missing, None}
    /\ retriever \notin {Missing, None}
    /\ ui = "step11" => uploaded_file_name # NoName

\* C23: in both applications qa_system_loaded implies that a chain and a
\* retriever are stored in the session (in step11 also the document name), so
\* a run that answers a question finds both; once true, qa_system_loaded
\* never becomes false again
C23_LoadedSessionHoldsChain ==
    /\ [](qa_system_loaded => ChainStored)
    /\ [](pc = "answering" => qa_system_loaded)
    /\ [][qa_system_loaded => qa_system_loaded']_vars

C23_Witness ==
    /\ qa_system_loaded
    /\ FailedLoad
    /\ Len(messages) >= 2
    /\ messages[Len(messages)].role = "assistant"
    /\ messages[Len(messages)].content \in Answers

----------------------------------------------------------------------------
(* Claims about the files of an upload *)

\* C24: whenever process_uploaded_pdf has returned, on the success path and
\* on every failure path, the temporary PDF file it created has been deleted
C24_TempFileDeleted ==
    event = "process_uploaded_pdf" => tmp_file = "deleted"

----------------------------------------------------------------------------
(* Claims about the persisted index that is loaded *)

\* the directory load_existing_vectorstore names by its db_type
IndexDirectory(type) ==
    IF type = "enhanced" THEN "faiss_index_enhanced"
    ELSE IF type = "basic" THEN "faiss_index" ELSE "<none>"

\* C25: load_existing_vectorstore returns the enhanced index whenever
\* faiss_index_enhanced exists and loads, the basic index only when
\* faiss_index_enhanced does not exist and faiss_index does, and (None, None)
\* otherwise: a faiss_index_enhanced that fails to load is not replaced by
\* faiss_index
C25_EnhancedIndexFirst ==
    [][ event' = "load_existing_document" =>
          LET failed == "error: Error loading vector database" \in shown'
          IN  /\ db_type' \in {"enhanced", "basic", NoName}
              /\ db_type' = "enhanced" => "faiss_index_enhanced" \in disk
              /\ db_type' = "basic" =>
                    "faiss_index_enhanced" \notin disk /\ "faiss_index" \in disk
              /\ (disk # {} /\ ~failed) =>
                    db_type' = (IF "faiss_index_enhanced" \in disk THEN "enhanced" ELSE "basic")
              /\ (disk = {} \/ failed) =>
                    /\ db_type' = NoName
                    /\ "error: No existing database found" \in shown'
                    /\ UNCHANGED sessionVars
              /\ shown' \cap SuccessMessages # {} =>
                    /\ retriever'.vectorstore.docs = IndexOnDisk(IndexDirectory(db_type'))
                    /\ uploaded_file_name' = "Existing (" \o db_type' \o ")" ]_vars

C25_Witness ==
    /\ event = "load_existing_document"
    /\ disk = {"faiss_index", "faiss_index_enhanced"}
    /\ cache_emb
    /\ "error: Error loading vector database" \in shown
    /\ db_type = NoName
    /\ ~qa_system_loaded

----------------------------------------------------------------------------
(* Claims about what the answer generator returns *)

\* the text of a stored source: step11 keeps a citation, step8 the text
SourceContent(source) == IF ui = "step11" THEN source.content ELSE source

\* C26: get_answer_with_sources (step11) and get_answer (step8) return either
\* the generated answer with the documents of the second retriever call, when
\* both calls succeed, or ("Error: ...", []) when either fails: sources are
\* never paired with an error string, and a generated answer is discarded
\* when the retrieval of its sources fails
C26_AnswerOrError ==
    [][ (pc = "answering" /\ invocations' = 1) =>
          LET last  == messages'[Len(messages')]
              index == retriever.vectorstore.docs
          IN  /\ Len(messages') = Len(messages) + 1
              /\ IF raised' = ""
                 THEN /\ last.content \in Answers
                      /\ Len(last.sources) = Min(retriever.k, Len(index))
                      /\ \A i \in 1..Len(last.sources) :
                            \E d \in 1..Len(index) :
                               SourceContent(last.sources[i]) = index[d].page_content
                 ELSE /\ last.content = "Error: " \o raised'
                      /\ last.content \notin Answers
                      /\ last.sources = <<>>
              /\ last.sources # <<>> => last.content \in Answers
              /\ shown' = {"answer: " \o last.content} ]_vars

C26_Witness ==
    /\ ui = "step8"
    /\ event = "chat_input"
    /\ pc = "idle"
    /\ invocations = 1
    /\ raised = RetrievalFailure
    /\ messages[Len(messages)] = AssistantMessage("Error: " \o RetrievalFailure, <<>>)

----------------------------------------------------------------------------
(* Claims about the shape of the history *)

\* the sources of an assistant message of step11 are in retrieval order for
\* the question before it: none is nearer to the question than one before it
InRetrievalOrder(q, sources) ==
    \A i, j \in 1..Len(sources) :
        i < j => Distance(q, sources[i].content) <= Distance(q, sources[j].content)

\* C27: in every reachable state of either application every assistant
\* message of the history comes right after a user message (the history never
\* starts with an assistant message and never holds two in a row) and has a
\* sources field, which in step11 holds at most 5 entries, in retrieval order
C27_HistoryWellFormed ==
    \A i \in 1..Len(messages) :
        /\ messages[i].role \in {"user", "assistant"}
        /\ messages[i].role = "assistant" =>
              /\ i > 1
              /\ messages[i - 1].role = "user"
              /\ "sources" \in DOMAIN messages[i]
              /\ ui = "step11" =>
                    /\ Len(messages[i].sources) <= 5
                    /\ InRetrievalOrder(messages[i - 1].content, messages[i].sources)

C27_Witness ==
    /\ ui = "step11"
    /\ Len(messages) = 3
    /\ messages[1] = UserMessage(samples[1])
    /\ messages[2].role = "user"
    /\ messages[3].role = "assistant"
    /\ Len(messages[3].sources) = 5
    /\ messages[3].sources[1].page = 3

====
